---- MODULE Spec2Model ----
(***************************************************************************)
(* A model of glc's ALSA hook layer (src/hook/alsa.c) and of its OpenGL    *)
(* playback stage (src/stream/gl_play.c).                                  *)
(*                                                                         *)
(* The specifications share the variables below; each moves its own part   *)
(* of the state and leaves the rest as it is after initialisation:         *)
(*   ParseSpec     the loop of alsa_parse_capture_cfg, one iteration a step *)
(*   HookSpec      the intercepted snd_pcm_* entry points                  *)
(*   PlaySpec      gl_play_read_callback, gl_play_finish_callback and the  *)
(*                 engine state they drive                                 *)
(*   PlayLongSpec  PlaySpec with one more message delivered                *)
(*   LifeSpec      alsa_init, alsa_start, alsa_unhook_so, alsa_pause,      *)
(*                 alsa_resume and alsa_close                              *)
(*   LoadSpec      threads inside get_real_alsa, line by line              *)
(*   FlagSpec      `glc->flags |= bit' racing with another thread          *)
(*   WireSpec      the stream's header structures laid out byte by byte    *)
(*   HandleSpec    the lifecycle calls interleaved with intercepted calls  *)
(*                                                                         *)
(* A C string is a sequence of one-character strings; a char pointer into  *)
(* it is an index 1..Len+1 (Len+1 is the terminating NUL) and NULL is 0.   *)
(*                                                                         *)
(* A record lists its fields in the order in which their names first occur *)
(* in this module, which is the order TLC keeps them in: a record value    *)
(* that TLC's worker threads share is then never reordered in place.       *)
(***************************************************************************)
EXTENDS Integers, Sequences, FiniteSets, TLC

VARIABLES
    cfg,             \* alsa_parse_capture_cfg: the descriptor being parsed
    device,          \* alsa_parse_capture_cfg: the `device' pointer
    capture_stream,  \* alsa.capture_stream, head of the list first
    ppc,             \* position in alsa_parse_capture_cfg: "loop" | "done"
    flags,           \* glc->flags, the set of the bits that are set
    capture,         \* alsa.capture
    call,            \* the last call of an intercepted entry point
    emitted,         \* per call made so far: whether the real function's
                     \* result was positive, whether GLC_CAPTURE was set and
                     \* whether data was handed to capture
    gl_play,         \* struct gl_play_private_s and the X/GL objects it owns
    state_flags,     \* state->flags of the playback worker
    xpending,        \* the events XPending/XNextEvent will deliver
    play,            \* the last invocation of gl_play_read_callback, and
                     \* whether it is still waiting in usleep
    rets,            \* the codes gl_play_read_callback returned so far
    renders,         \* calls of gl_play_draw_picture so far
    fin,             \* what the calls of gl_play_finish_callback have done
    started,         \* alsa.started
    audio_hook,      \* alsa.audio_hook
    life,            \* the last call of alsa_init, alsa_start, alsa_pause,
                     \* alsa_resume or alsa_close, and the capture handles
                     \* opened and closed so far
    loader,          \* alsa_loaded, alsa.libasound_handle, the five real
                     \* entry points and the place of each thread that is
                     \* inside get_real_alsa
    libasound,       \* the libasound.so the dynamic linker finds
    upd,             \* the thread that runs `glc->flags |= bit': where it
                     \* is, the bit, and the value of flags it has loaded
    wire,            \* the header being laid out byte by byte: its kind,
                     \* the field and byte reached, the bytes laid out
    so,              \* the loaded libasound.so object: what each of its
                     \* relocation entries is bound to
    hooks            \* the audio hook module: whether the object behind
                     \* alsa.audio_hook exists, the audio_hook_close calls
                     \* since the last successful alsa_start, and the handle
                     \* the last intercepted call passed to an emission

parseVars == <<cfg, device, capture_stream, ppc>>

hookVars == <<flags, capture, call, emitted>>

playVars == <<gl_play, state_flags, xpending, play, rets, renders, fin>>

lifeVars == <<started, audio_hook, life, loader, libasound, upd>>

auxVars == <<wire, so, hooks>>

vars ==
    <<cfg, device, capture_stream, ppc, flags, capture, call, emitted,
      gl_play, state_flags, xpending, play, rets, renders, fin,
      started, audio_hook, life, loader, libasound, upd, wire, so, hooks>>

----------------------------------------------------------------------------
(* Bounds of the model *)

\* longest enumerated descriptor
MaxLen == 5

\* calls of intercepted entry points in one behaviour
MaxCalls == 3

\* largest frame count passed to an intercepted entry point
MaxFrames == 2

\* messages delivered to the playback stage in one behaviour
MaxMsgs == 2

\* events that can wait in the display connection's queue
MaxEvents == 1

\* largest picture timestamp; the playback clock reads up to one more
MaxTime == 2

\* characters of the enumerated descriptors: a name character, the spec
\* delimiter, the parameter marker and two digits
Alphabet == {"a", ";", ",", "1", "2"}

----------------------------------------------------------------------------
(* C strings *)

NULL == 0

NUL == "NUL"

\* *p for a pointer p into the string s
CharAt(s, p) == IF p >= 1 /\ p <= Len(s) THEN s[p] ELSE NUL

\* strstr(s + p - 1, c) for a one-character needle c: the first occurrence at
\* or after p, NULL when there is none
strstr(s, p, c) ==
    IF \E i \in p..Len(s) : s[i] = c
    THEN CHOOSE i \in p..Len(s) : s[i] = c /\ \A j \in p..(i - 1) : s[j] # c
    ELSE NULL

\* strlen(s + p - 1)
strlen(s, p) == Len(s) + 1 - p

Digits == {"0", "1", "2", "3", "4", "5", "6", "7", "8", "9"}

DigitVal(c) ==
    CASE c = "0" -> 0 [] c = "1" -> 1 [] c = "2" -> 2 [] c = "3" -> 3
      [] c = "4" -> 4 [] c = "5" -> 5 [] c = "6" -> 6 [] c = "7" -> 7
      [] c = "8" -> 8 [] c = "9" -> 9

\* the end of the run of digits of s that starts at p (p itself if no digit)
RECURSIVE DigitsEnd(_, _)
DigitsEnd(s, p) ==
    IF CharAt(s, p) \in Digits THEN DigitsEnd(s, p + 1) ELSE p

\* the value of the digits s[p..q-1]. A run of at most nine digits stays
\* below 2^32, so unsigned int arithmetic never wraps on the descriptors of
\* this model (the longest run is bounded by the descriptor's length).
RECURSIVE DigitsValue(_, _, _, _)
DigitsValue(s, p, q, acc) ==
    IF p >= q THEN acc
    ELSE DigitsValue(s, p + 1, q, acc * 10 + DigitVal(s[p]))

\* the %u conversion of sscanf at p: [ok, val, next]. The descriptors of this
\* model hold neither white space nor a sign, which %u would skip or accept.
ScanU(s, p) ==
    LET q == DigitsEnd(s, p)
    IN  [ok |-> q > p, val |-> DigitsValue(s, p, q, 0), next |-> q]

\* sscanf(args, ",%u,%u", &rate, &channels) with args = s + p - 1: a
\* conversion that fails ends the scan and leaves its variable as it was
sscanf(s, p, rate, channels) ==
    IF CharAt(s, p) # "," THEN [rate |-> rate, channels |-> channels]
    ELSE LET r == ScanU(s, p + 1)
         IN  IF ~r.ok THEN [rate |-> rate, channels |-> channels]
             ELSE IF CharAt(s, r.next) # ","
                  THEN [rate |-> r.val, channels |-> channels]
                  ELSE LET c == ScanU(s, r.next + 1)
                       IN  IF ~c.ok THEN [rate |-> r.val, channels |-> channels]
                           ELSE [rate |-> r.val, channels |-> c.val]

----------------------------------------------------------------------------
(* alsa_parse_capture_cfg *)

DefaultChannels == 1

DefaultRate == 44100

\* a skip that passes one delimiter only
SkipOneDelim(s, p) == IF CharAt(s, p) = ";" THEN p + 1 ELSE p

\* lines 93-94: while (*device == ';') device++
RECURSIVE SkipDelims(_, _)
SkipDelims(s, p) == IF CharAt(s, p) = ";" THEN SkipDelims(s, p + 1) ELSE p

\* a length that takes the parameter marker into the name
DeviceLenPastMarker(s, d, args, next) ==
    IF args # NULL THEN args - d + 1
    ELSE IF next # NULL THEN next - d
    ELSE strlen(s, d)

\* lines 109-114: the length of the device name
DeviceLen(s, d, args, next) ==
    IF args # NULL THEN args - d
    ELSE IF next # NULL THEN next - d
    ELSE strlen(s, d)

\* lines 116-118: the indexes of stream->device that are written, by
\* memcpy(stream->device, device, len) and by stream->device[len] = '\0'
DeviceWrites(len) == (0..(len - 1)) \cup {len}

\* lines 98-125, one pass of the loop body with `device' already past the
\* delimiters: the node that is prepended, the size passed to malloc for its
\* name, the indexes of the name that are written, and the value `device'
\* takes for the next pass
ParseSpecAt(s, d) ==
    LET args == strstr(s, d, ",")
        got  == IF args # NULL
                THEN sscanf(s, args, DefaultRate, DefaultChannels)
                ELSE [rate |-> DefaultRate, channels |-> DefaultChannels]
        next == strstr(s, d, ";")
        len  == DeviceLen(s, d, args, next)
    IN  [next |-> next,
         stream |-> [device |-> SubSeq(s, d, d + len - 1),
                     capture |-> NULL,
                     rate |-> got.rate,
                     channels |-> got.channels],
         alloc |-> len,
         writes |-> DeviceWrites(len)]

\* lines 92-126, the whole loop from `device' = p with the list `list'
RECURSIVE ParseFrom(_, _, _)
ParseFrom(s, p, list) ==
    IF p = NULL THEN list
    ELSE LET d == SkipDelims(s, p)
         IN  IF CharAt(s, d) = NUL THEN list
             ELSE LET it == ParseSpecAt(s, d)
                  IN  ParseFrom(s, it.next, <<it.stream>> \o list)

\* alsa_parse_capture_cfg(cfg) on the list `list': the list afterwards
alsa_parse_capture_cfg(s, list) == ParseFrom(s, 1, list)

----------------------------------------------------------------------------
(* get_real_alsa: the one-time resolution of the real entry points. A     *)
(* thread inside the function is at one of its lines: 214 (the test of    *)
(* alsa_loaded), 217 (dlopen and the store of the handle), 218 (the test  *)
(* of the handle), 221, 226, 231, 236 and 241 (the five dlsym calls with  *)
(* their stores), 223, 228, 233, 238 and 243 (the tests of the stored     *)
(* entry points), 246 (alsa_loaded = 1), 249 (the fprintf after err:) and *)
(* 250 (exit(1)); 0 is outside. Nothing in the function is locked, so     *)
(* every line is a step of its own, the lines of the error path included. *)

\* host threads that can be inside get_real_alsa at the same time
Threads == {1, 2}

\* the real entry points in the order of lines 220-244
Symbols ==
    <<"snd_pcm_open", "snd_pcm_writei", "snd_pcm_writen",
      "snd_pcm_mmap_begin", "snd_pcm_mmap_commit">>

\* the lines of the dlsym calls
SymbolLines == <<221, 226, 231, 236, 241>>

\* the lines of the tests `if (!alsa.snd_pcm_...)' that follow them
TestLines == <<223, 228, 233, 238, 243>>

\* the line that follows a line of get_real_alsa when nothing fails
NextLine(at) ==
    CASE at = 214 -> 217
      [] at = 217 -> 218
      [] at = 218 -> 221
      [] at = 221 -> 223
      [] at = 223 -> 226
      [] at = 226 -> 228
      [] at = 228 -> 231
      [] at = 231 -> 233
      [] at = 233 -> 236
      [] at = 236 -> 238
      [] at = 238 -> 241
      [] at = 241 -> 243
      [] at = 243 -> 246
      [] at = 249 -> 250
      [] OTHER -> 0

\* a libasound.so as the dynamic linker finds it: whether dlopen returns a
\* handle, and the symbol (1..5, 0 for none) that dlsym cannot find
FullLibrary == [opens |-> TRUE, missing |-> 0]

Libraries ==
    {FullLibrary, [opens |-> FALSE, missing |-> 0], [opens |-> TRUE, missing |-> 3]}

\* the static storage before the first call: alsa_loaded = 0 (line 54), the
\* zeroed alsa structure (line 53); `loaders' are the threads that have
\* called dlopen, `stores' counts the assignments to each entry point,
\* `calls' the calls of get_real_alsa each thread has made and `exited'
\* says that exit(1) has ended the process
NotLoaded ==
    [alsa_loaded |-> 0,
     libasound_handle |-> NULL,
     real |-> [i \in 1..Len(Symbols) |-> NULL],
     loaders |-> {},
     stores |-> [i \in 1..Len(Symbols) |-> 0],
     exited |-> FALSE,
     pc |-> [t \in Threads |-> 0],
     calls |-> [t \in Threads |-> 0]]

\* the index of the symbol resolved at line `at'
SymbolAt(at) == CHOOSE i \in 1..Len(Symbols) : SymbolLines[i] = at

\* the index of the entry point tested at line `at'
TestedAt(at) == CHOOSE i \in 1..Len(Symbols) : TestLines[i] = at

\* the label err: of line 248, where every failed test jumps
ErrLine == 249

\* lines 214-250, the step of thread t at the line it has reached, with the
\* library lib. A dlopen or dlsym that fails stores NULL like one that
\* succeeds; the test on the next line reads what is stored and jumps to
\* err:, where the message is written and then exit(1) ends the process.
\* Until that last step the other threads run on.
get_real_alsa_step(l, t, lib) ==
    LET at == l.pc[t]
    IN  CASE at = 214 ->
               IF l.alsa_loaded # 0 THEN [l EXCEPT !.pc[t] = 0]
               ELSE [l EXCEPT !.pc[t] = NextLine(at)]
          [] at = 217 ->
               [l EXCEPT !.libasound_handle = IF lib.opens THEN 1 ELSE NULL,
                         !.loaders = @ \cup {t},
                         !.pc[t] = NextLine(at)]
          [] at = 218 ->
               IF l.libasound_handle = NULL THEN [l EXCEPT !.pc[t] = ErrLine]
               ELSE [l EXCEPT !.pc[t] = NextLine(at)]
          [] at \in {SymbolLines[i] : i \in 1..Len(Symbols)} ->
               LET i == SymbolAt(at)
               IN  [l EXCEPT !.real[i] = IF lib.missing = i THEN NULL ELSE 1,
                             !.stores[i] = @ + 1,
                             !.pc[t] = NextLine(at)]
          [] at \in {TestLines[i] : i \in 1..Len(Symbols)} ->
               IF l.real[TestedAt(at)] = NULL THEN [l EXCEPT !.pc[t] = ErrLine]
               ELSE [l EXCEPT !.pc[t] = NextLine(at)]
          [] at = 246 -> [l EXCEPT !.alsa_loaded = 1, !.pc[t] = 0]
          [] at = ErrLine -> [l EXCEPT !.pc[t] = NextLine(at)]
          [] at = 250 -> [l EXCEPT !.exited = TRUE]
          [] OTHER -> l

\* line 209, thread t calls get_real_alsa; lib.dlopen is taken to be
\* resolved already (line 211)
get_real_alsa_enter(l, t) ==
    [l EXCEPT !.pc[t] = 214, !.calls[t] = @ + 1]

\* thread t runs on, alone, until it returns or the process exits
RECURSIVE RunToReturn(_, _, _)
RunToReturn(l, t, lib) ==
    IF l.pc[t] = 0 \/ l.exited THEN l
    ELSE RunToReturn(get_real_alsa_step(l, t, lib), t, lib)

\* lines 209-251, get_real_alsa() called by thread t and run to its end with
\* no other thread inside
get_real_alsa(l, t, lib) == RunToReturn(get_real_alsa_enter(l, t), t, lib)

----------------------------------------------------------------------------
(* The parts of the state a specification leaves at rest *)

\* none of alsa_init, alsa_start, alsa_pause, alsa_resume and alsa_close
\* has been called: the effects of the last call, and over the behaviour
\* the handles closed, the calls made and the next handle to hand out
NoLife ==
    [next |-> 1, op |-> "none", ret |-> 0, unhooks |-> 0,
     hook_inits |-> 0, hook_closes |-> 0, opened |-> <<>>,
     forwarded |-> <<>>, closed |-> <<>>, n |-> 0]

\* no header is being laid out
NoWire == [kind |-> "none", field |-> 1, byte |-> 0, offset |-> 0]

\* the entries of an object that alsa_unhook_so may rebind: the entry
\* points this layer intercepts, and dlsym and dlvsym
RelocSymbols ==
    {Symbols[i] : i \in 1..Len(Symbols)} \cup {"dlsym", "dlvsym"}

\* the object as the dynamic linker bound it: every entry to this layer's
\* exported function of that name
Interposed == [rel |-> [s \in RelocSymbols |-> "layer"]]

\* no audio hook object has been created, closed or used
NoHooks ==
    [live |-> FALSE, closes |-> 0, passed |-> [used |-> FALSE, handle |-> 0]]

AuxAtRest ==
    /\ wire = NoWire
    /\ so = Interposed
    /\ hooks = NoHooks

\* no `glc->flags |= bit' is under way
NoUpdate == [pc |-> "idle", n |-> 0, bit |-> 0, reg |-> {}]

\* lines 53-54, the zeroed static storage of the layer
LifeAtRest ==
    /\ started = 0
    /\ audio_hook = NULL
    /\ life = NoLife
    /\ loader = NotLoaded
    /\ libasound = FullLibrary
    /\ upd = NoUpdate
    /\ AuxAtRest

\* no intercepted entry point has been called
NoCall ==
    [real |-> 0, ret |-> 0, fn |-> "none", trace |-> <<>>, frames |-> 0,
     emit_ret |-> 0, logged |-> FALSE]

\* gl_play_read_callback has not been invoked. trace holds the steps the
\* invocation has taken and rest those it takes after its wait in usleep;
\* pc is "usleep" while it waits there and "idle" once it has returned ret.
NoPlay ==
    [pc |-> "idle", ret |-> 0, trace |-> <<>>,
     msg |-> [flags |-> {}, type |-> 0, ctx |-> 0, w |-> 0, h |-> 0,
              timestamp |-> 0],
     glx_ok |-> TRUE, proto_exists |-> TRUE, time |-> 0, path |-> <<>>,
     slept |-> 0, rest |-> <<>>]

\* lines 75-98, gl_play_init for context ctx: the structure is zeroed by
\* memset, the owned context is stored and the display is opened; no field
\* other than glc, ctx_i, finished, play_thread and dpy is assigned.
\* Besides the fields of struct gl_play_private_s (lines 42-62) the record
\* holds what the X server and GL keep for the engine: current (gl_play->ctx
\* is current on gl_play->drawable), the window's size and the viewport
\* asked for.
gl_play_init(ctx) ==
    [ctx |-> NULL, w |-> 0, h |-> 0, ctx_i |-> ctx, fps |-> 0, created |-> 0,
     texture |-> 0, drawable |-> 0, current |-> FALSE,
     winsize |-> <<0, 0>>, viewport |-> <<0, 0>>,
     delete_atom |-> 0, wm_proto_atom |-> 0]

\* gl_play_finish_callback has not been invoked
NoFinish ==
    [calls |-> 0, logged |-> 0, err |-> 0, textures_deleted |-> 0,
     contexts_destroyed |-> 0, windows_destroyed |-> 0,
     displays_closed |-> 0, posts |-> 0]

ParseAtRest ==
    /\ cfg = <<>>
    /\ device = NULL
    /\ capture_stream = <<>>
    /\ ppc = "done"

HookAtRest ==
    /\ flags = {}
    /\ capture = 1
    /\ call = NoCall
    /\ emitted = <<>>

PlayAtRest ==
    /\ gl_play = gl_play_init(1)
    /\ state_flags = {}
    /\ xpending = <<>>
    /\ play = NoPlay
    /\ rets = <<>>
    /\ renders = 0
    /\ fin = NoFinish

----------------------------------------------------------------------------
(* ParseSpec: alsa_parse_capture_cfg, one loop iteration per step *)

RECURSIVE StringsUpTo(_)
StringsUpTo(n) ==
    IF n = 0 THEN {<<>>}
    ELSE LET shorter == StringsUpTo(n - 1)
         IN  shorter \cup {Append(s, c) : s \in {t \in shorter : Len(t) = n - 1},
                                          c \in Alphabet}

\* the example descriptor of the specification, "hw:0;hw:1,48000,2"
ExampleCfg ==
    <<"h", "w", ":", "0", ";", "h", "w", ":", "1", ",",
      "4", "8", "0", "0", "0", ",", "2">>

\* longer descriptors next to the enumerated ones: "a,1,2;a", "a;a,1,2",
\* ",48000,2" and ";;a,12;;a;"
NamedCfgs ==
    {ExampleCfg,
     <<"a", ",", "1", ",", "2", ";", "a">>,
     <<"a", ";", "a", ",", "1", ",", "2">>,
     <<",", "4", "8", "0", "0", "0", ",", "2">>,
     <<";", ";", "a", ",", "1", "2", ";", ";", "a", ";">>}

Descriptors == StringsUpTo(MaxLen) \cup NamedCfgs

ParseInit ==
    /\ cfg \in Descriptors
    /\ device = 1
    /\ capture_stream = <<>>
    /\ ppc = "loop"
    /\ HookAtRest
    /\ PlayAtRest
    /\ LifeAtRest

\* one pass of the loop that reaches line 98 and creates a node
ParseIter ==
    /\ ppc = "loop"
    /\ device # NULL
    /\ LET d == SkipDelims(cfg, device)
       IN  /\ CharAt(cfg, d) # NUL
           /\ LET it == ParseSpecAt(cfg, d)
              IN  /\ capture_stream' = <<it.stream>> \o capture_stream
                  /\ device' = it.next
    /\ UNCHANGED <<cfg, ppc>>
    /\ UNCHANGED <<hookVars, playVars, lifeVars, auxVars>>

\* the loop ends: `device' is NULL (line 92) or only delimiters are left
\* (line 96); the function returns 0
ParseExit ==
    /\ ppc = "loop"
    /\ \/ device = NULL
       \/ /\ device # NULL
          /\ CharAt(cfg, SkipDelims(cfg, device)) = NUL
    /\ ppc' = "done"
    /\ UNCHANGED <<cfg, device, capture_stream>>
    /\ UNCHANGED <<hookVars, playVars, lifeVars, auxVars>>

ParseNext == ParseIter \/ ParseExit

ParseSpec == ParseInit /\ [][ParseNext]_vars

----------------------------------------------------------------------------
(* Claims about alsa_parse_capture_cfg *)

\* the (device, rate, channels) tuple of a list node
EndpointOf(node) ==
    [device |-> node.device, rate |-> node.rate, channels |-> node.channels]

EndpointSet(list) == {EndpointOf(list[i]) : i \in 1..Len(list)}

\* the positions where a non-empty ';'-separated spec of s starts
SpecStarts(s) ==
    {i \in 1..Len(s) : s[i] # ";" /\ (i = 1 \/ s[i - 1] = ";")}

\* the text of the spec that starts at i: up to the next ';' or the end
SpecText(s, i) ==
    LET stop == {j \in i..Len(s) : s[j] = ";"}
        last == IF stop = {} THEN Len(s)
                ELSE (CHOOSE j \in stop : \A k \in stop : j <= k) - 1
    IN  SubSeq(s, i, last)

\* the k-th smallest element of a set of numbers
RECURSIVE KthOf(_, _)
KthOf(S, k) ==
    LET m == CHOOSE x \in S : \A y \in S : x <= y
    IN  IF k = 1 THEN m ELSE KthOf(S \ {m}, k - 1)

\* what a spec says taken on its own: its name up to its own parameter
\* marker, its own rate and channels overrides, 44100 and 1 without them
OwnEndpoint(spec) ==
    LET marker == {j \in 1..Len(spec) : spec[j] = ","}
        first  == IF marker = {} THEN NULL
                  ELSE CHOOSE j \in marker : \A k \in marker : j <= k
        rate   == IF first = NULL THEN 44100
                  ELSE sscanf(spec, first, 44100, 1).rate
        chans  == IF first = NULL THEN 1
                  ELSE sscanf(spec, first, 44100, 1).channels
    IN  [device |-> IF first = NULL THEN spec ELSE SubSeq(spec, 1, first - 1),
         rate |-> rate, channels |-> chans]

\* the decimal digits of n, as printf's %u writes them
RECURSIVE Decimal(_)
Decimal(n) ==
    LET d == CHOOSE c \in Digits : DigitVal(c) = n % 10
    IN  IF n < 10 THEN <<d>> ELSE Append(Decimal(n \div 10), d)

\* the canonical form "device,rate,channels;..." of a list, in list order
RECURSIVE Canonical(_)
Canonical(list) ==
    IF list = <<>> THEN <<>>
    ELSE LET n    == list[1]
             one  == n.device \o <<",">> \o Decimal(n.rate) \o <<",">>
                     \o Decimal(n.channels)
             rest == Tail(list)
         IN  IF rest = <<>> THEN one ELSE one \o <<";">> \o Canonical(rest)

\* C1: every spec of the descriptor yields an endpoint with that spec's own
\* device name and that spec's own rate and channels (44100 and 1 when it
\* has none), whatever later specs hold; the list is in reverse order of the
\* descriptor. "hw:0;hw:1,48000,2" gives {hw:0,44100,1} and {hw:1,48000,2}.
C1_EachSpecItsOwnEndpoint ==
    ppc = "done" =>
        LET starts == SpecStarts(cfg)
            n      == Cardinality(starts)
        IN  /\ Len(capture_stream) = n
            /\ \A k \in 1..n :
                   EndpointOf(capture_stream[n + 1 - k])
                       = OwnEndpoint(SpecText(cfg, KthOf(starts, k)))

\* C2: after the parse every node of the list has a non-empty device name.
C2_DeviceNonEmpty ==
    ppc = "done" =>
        \A i \in 1..Len(capture_stream) : Len(capture_stream[i].device) > 0

\* the number of passes the loop can still make is bounded by this measure,
\* which every step of the loop lowers
ParseMeasure ==
    IF ppc = "done" THEN 0
    ELSE IF device = NULL THEN 1
    ELSE Len(cfg) + 3 - device

\* C3: the parse creates exactly one endpoint per non-empty ';'-separated
\* spec (none for "" and for delimiters only; leading, repeated and trailing
\* delimiters add none), and the loop terminates: every step of it lowers a
\* measure that is never negative (the loop's two ways on, another pass or
\* the exit, have complementary conditions, so it never stops in between).
C3_OneEndpointPerSpec ==
    /\ [](ppc = "done" => Len(capture_stream) = Cardinality(SpecStarts(cfg)))
    /\ [](ParseMeasure >= 0)
    /\ [][ParseMeasure' < ParseMeasure]_vars

C3_Witness ==
    /\ ppc = "done"
    /\ Len(cfg) >= 4
    /\ cfg[1] = ";"
    /\ cfg[Len(cfg)] = ";"
    /\ \E i \in 1..(Len(cfg) - 1) : cfg[i] = ";" /\ cfg[i + 1] = ";"
    /\ Len(capture_stream) = 2

\* C4: parsing, writing the list in canonical form and parsing that again
\* gives the same set of (device, rate, channels) tuples as the first parse.
C4_RoundTrip ==
    ppc = "done" =>
        EndpointSet(alsa_parse_capture_cfg(Canonical(capture_stream), <<>>))
            = EndpointSet(capture_stream)

C4_Witness ==
    /\ ppc = "done"
    /\ Len(capture_stream) >= 2
    /\ \E i \in 1..Len(capture_stream) :
           /\ capture_stream[i].rate # DefaultRate
           /\ capture_stream[i].channels # DefaultChannels
    /\ \E i \in 1..Len(capture_stream) : capture_stream[i].rate = DefaultRate
    /\ EndpointSet(alsa_parse_capture_cfg(Canonical(capture_stream), <<>>))
           = EndpointSet(capture_stream)

----------------------------------------------------------------------------
(* The intercepted entry points of src/hook/alsa.c *)

GLC_CAPTURE == 1

GLC_CANCEL == 2

GLC_AUDIO_ALLOW_SKIP == 64

\* flags & bit
HasFlag(f, bit) == bit \in f

\* the conversion of a snd_pcm_sframes_t (long) to snd_pcm_uframes_t
\* (unsigned long): v + hi * 2^64, kept as the pair since 2^64 is no value of
\* the integers TLC computes with
to_uframes(v) == [hi |-> IF v < 0 THEN 1 ELSE 0, off |-> v]

\* the conversion of a snd_pcm_uframes_t back to snd_pcm_sframes_t: values
\* from 2^63 on come out 2^64 lower
to_sframes(u) == u.off

\* an intercepted write that hands the emission's failure back to the host
alsa_snd_pcm_writei_emit_ret(size, real, emit_ret) ==
    LET emit == (capture # 0) /\ (real > 0) /\ HasFlag(flags, GLC_CAPTURE)
    IN  [real |-> real,
         ret |-> IF emit /\ emit_ret # 0 THEN -emit_ret ELSE real,
         fn |-> "snd_pcm_writei",
         trace |-> IF emit THEN <<"real", "emit">> ELSE <<"real">>,
         frames |-> IF emit THEN real ELSE 0,
         emit_ret |-> IF emit THEN emit_ret ELSE 0,
         logged |-> FALSE]

\* lines 295-302, __alsa_snd_pcm_writei: `real' is what alsa.snd_pcm_writei
\* returns for the host's arguments, `emit_ret' what audio_hook_alsa_i returns
alsa_snd_pcm_writei(size, real, emit_ret) ==
    LET emit == (capture # 0) /\ (real > 0) /\ HasFlag(flags, GLC_CAPTURE)
    IN  [real |-> real, ret |-> real, fn |-> "snd_pcm_writei",
         trace |-> IF emit THEN <<"real", "emit">> ELSE <<"real">>,
         frames |-> IF emit THEN real ELSE 0,
         emit_ret |-> IF emit THEN emit_ret ELSE 0,
         logged |-> FALSE]

\* an intercepted write that captures whatever the CAPTURING flag says
alsa_snd_pcm_writen_no_flag(size, real, emit_ret) ==
    LET emit == (capture # 0) /\ (real > 0)
    IN  [real |-> real, ret |-> real, fn |-> "snd_pcm_writen",
         trace |-> IF emit THEN <<"real", "emit">> ELSE <<"real">>,
         frames |-> IF emit THEN real ELSE 0,
         emit_ret |-> IF emit THEN emit_ret ELSE 0,
         logged |-> FALSE]

\* lines 309-316, __alsa_snd_pcm_writen
alsa_snd_pcm_writen(size, real, emit_ret) ==
    LET emit == (capture # 0) /\ (real > 0) /\ HasFlag(flags, GLC_CAPTURE)
    IN  [real |-> real, ret |-> real, fn |-> "snd_pcm_writen",
         trace |-> IF emit THEN <<"real", "emit">> ELSE <<"real">>,
         frames |-> IF emit THEN real ELSE 0,
         emit_ret |-> IF emit THEN emit_ret ELSE 0,
         logged |-> FALSE]

\* lines 323-330, __alsa_snd_pcm_mmap_begin: `got' is the frame count the
\* real function stores in *frames
alsa_snd_pcm_mmap_begin(got, real, emit_ret) ==
    LET emit == (capture # 0) /\ (real >= 0) /\ HasFlag(flags, GLC_CAPTURE)
    IN  [real |-> real, ret |-> real, fn |-> "snd_pcm_mmap_begin",
         trace |-> IF emit THEN <<"real", "emit">> ELSE <<"real">>,
         frames |-> IF emit THEN got ELSE 0,
         emit_ret |-> IF emit THEN emit_ret ELSE 0,
         logged |-> FALSE]

\* lines 337-348, __alsa_snd_pcm_mmap_commit: the emission comes first, with
\* the frame count the host asked for; the real result goes through an
\* unsigned variable and is logged when it differs from that count
alsa_snd_pcm_mmap_commit(frames, real, emit_ret) ==
    LET emit == (capture # 0) /\ HasFlag(flags, GLC_CAPTURE)
        ret  == to_uframes(real)
    IN  [real |-> real, ret |-> to_sframes(ret), fn |-> "snd_pcm_mmap_commit",
         trace |-> IF emit THEN <<"emit", "real">> ELSE <<"real">>,
         frames |-> IF emit THEN frames ELSE 0,
         emit_ret |-> IF emit THEN emit_ret ELSE 0,
         logged |-> ret # to_uframes(frames)]

\* lines 282-288, __alsa_snd_pcm_open: the real function's result, no capture
alsa_snd_pcm_open(real) ==
    [real |-> real, ret |-> real, fn |-> "snd_pcm_open", trace |-> <<"real">>,
     frames |-> 0, emit_ret |-> 0, logged |-> FALSE]

\* did the call hand data to the capture pipeline?
Emits(c) == \E i \in 1..Len(c.trace) : c.trace[i] = "emit"

----------------------------------------------------------------------------
(* HookSpec: the host calls the intercepted entry points while another     *)
(* thread switches capturing on and off. INIT_GLC has set the layer up     *)
(* (alsa_init, lines 60-83) before the body of any entry point runs.       *)

\* the error the real snd_pcm_* functions return in this model: -EPIPE
RealErrors == {-32}

\* what the real write functions can return for `size' frames
WriteResults(size) == RealErrors \cup 0..size

\* what the real snd_pcm_open and snd_pcm_mmap_begin can return
IntResults == RealErrors \cup {0}

\* what an emission function can return: 0 or an error (EBUSY)
EmitResults == {0, 16}

HookInit ==
    /\ ParseAtRest
    /\ PlayAtRest
    /\ flags \in SUBSET {GLC_CAPTURE, GLC_AUDIO_ALLOW_SKIP}
    /\ capture \in {0, 1}
    /\ call = NoCall
    /\ emitted = <<>>
    /\ started = 0
    /\ audio_hook = NULL
    /\ life = NoLife
    /\ loader = get_real_alsa(NotLoaded, 1, FullLibrary)
    /\ libasound = FullLibrary
    /\ upd = NoUpdate
    /\ AuxAtRest

Record(c) ==
    /\ Len(emitted) < MaxCalls
    /\ call' = c
    /\ emitted' = Append(emitted, [emit |-> Emits(c),
                                    positive |-> c.real > 0,
                                    capturing |-> HasFlag(flags, GLC_CAPTURE)])
    /\ UNCHANGED <<flags, capture>>
    /\ UNCHANGED <<parseVars, playVars, lifeVars, auxVars>>

\* lines 277-280
snd_pcm_open ==
    \E real \in IntResults : Record(alsa_snd_pcm_open(real))

\* lines 290-293
snd_pcm_writei ==
    \E size \in 0..MaxFrames : \E real \in WriteResults(size) :
        \E e \in EmitResults : Record(alsa_snd_pcm_writei(size, real, e))

\* lines 304-307
snd_pcm_writen ==
    \E size \in 0..MaxFrames : \E real \in WriteResults(size) :
        \E e \in EmitResults : Record(alsa_snd_pcm_writen(size, real, e))

\* lines 318-321
snd_pcm_mmap_begin ==
    \E got \in 0..MaxFrames : \E real \in IntResults :
        \E e \in EmitResults : Record(alsa_snd_pcm_mmap_begin(got, real, e))

\* lines 332-335
snd_pcm_mmap_commit ==
    \E frames \in 0..MaxFrames : \E real \in WriteResults(frames) :
        \E e \in EmitResults : Record(alsa_snd_pcm_mmap_commit(frames, real, e))

\* the session's CAPTURING flag is switched by another thread
SetCapture ==
    /\ ~HasFlag(flags, GLC_CAPTURE)
    /\ flags' = flags \cup {GLC_CAPTURE}
    /\ UNCHANGED <<capture, call, emitted>>
    /\ UNCHANGED <<parseVars, playVars, lifeVars, auxVars>>

ClearCapture ==
    /\ HasFlag(flags, GLC_CAPTURE)
    /\ flags' = flags \ {GLC_CAPTURE}
    /\ UNCHANGED <<capture, call, emitted>>
    /\ UNCHANGED <<parseVars, playVars, lifeVars, auxVars>>

HookNext ==
    \/ snd_pcm_open
    \/ snd_pcm_writei
    \/ snd_pcm_writen
    \/ snd_pcm_mmap_begin
    \/ snd_pcm_mmap_commit
    \/ SetCapture
    \/ ClearCapture

HookSpec == HookInit /\ [][HookNext]_vars

----------------------------------------------------------------------------
(* Claims about the intercepted entry points *)

\* C5: every intercepted entry point returns to the host exactly what the
\* real function returned, whatever the flags are and whatever the emission
\* returned.
C5_ReturnsRealValue ==
    call.fn # "none" => call.ret = call.real

C5_Witness ==
    /\ call.fn = "snd_pcm_writei"
    /\ Emits(call)
    /\ call.emit_ret # 0
    /\ call.real > 0
    /\ call.ret = call.real

\* C6: a call hands data to the capture pipeline only if GLC_CAPTURE is set
\* in glc->flags when that call is made, whatever earlier calls did.
C6_EmitsOnlyWhileCapturing ==
    [][(Len(emitted') = Len(emitted) + 1 /\ emitted'[Len(emitted')].emit)
          => HasFlag(flags, GLC_CAPTURE)]_vars

\* calls that emitted, then one with the flag clear that did not although
\* the write succeeded, then one that emitted again
C6_Witness ==
    /\ Len(emitted) = 3
    /\ emitted[1].emit
    /\ ~emitted[2].capturing /\ emitted[2].positive /\ ~emitted[2].emit
    /\ emitted[3].capturing /\ emitted[3].emit
    /\ capture # 0
    /\ call.fn = "snd_pcm_writen"

\* did the real function succeed and transfer something?
RealSucceeded(c) ==
    IF c.fn = "snd_pcm_mmap_begin" THEN c.real >= 0 ELSE c.real > 0

\* C7: in every call the emission comes after the real function has been
\* called, and only if the real function succeeded.
C7_EmitsAfterRealSuccess ==
    \A i \in 1..Len(call.trace) :
        call.trace[i] = "emit" =>
            /\ \E j \in 1..(i - 1) : call.trace[j] = "real"
            /\ RealSucceeded(call)

----------------------------------------------------------------------------
(* The playback stage of src/stream/gl_play.c *)

GLC_MESSAGE_PICTURE == 2

GLC_MESSAGE_CTX == 3

GLC_MESSAGE_AUDIO == 6

GLC_CTX_CREATE == 1

GLC_CTX_UPDATE == 2

GLC_CTX_BGR == 4

GLC_CTX_BGRA == 8

GLC_CTX_YCBCR_420JPEG == 16

EINVAL == 22

EAGAIN == 11

\* the stop bit of the worker's state->flags (its value is set in thread.h)
GLC_THREAD_STOP == "GLC_THREAD_STOP"

\* the atom the display has for a name; None, the atom of no name, is 0
AtomOf(name) ==
    CASE name = "WM_DELETE_WINDOW" -> 1
      [] name = "WM_PROTOCOLS" -> 2
      [] OTHER -> 3

\* XInternAtom(dpy, name, only_if_exists) of lines 173-174 on a display
\* where the atom exists or not: with only_if_exists an atom that does not
\* exist is not made and None is returned
XInternAtom(name, only_if_exists, exists) ==
    IF only_if_exists /\ ~exists THEN 0 ELSE AtomOf(name)

\* the state of the engine's context in the terms of the state machine:
\* created is set by gl_play_create_ctx (line 169); gl_play_update_ctx maps
\* the window and calls glXMakeCurrent with gl_play->ctx (lines 205-207),
\* which makes a context current on the window when gl_play->ctx is one
EngineState(g) ==
    IF g.created = 0 THEN "UNINITIALIZED"
    ELSE IF g.current THEN "ACTIVE"
    ELSE "CREATED"

\* lines 212-235, gl_play_update_viewport: asks for the viewport and, when
\* gl_play->texture is 0, for a texture name; returns 0. glGenTextures
\* stores a name only when a GL context is current: without one it leaves
\* gl_play->texture 0. viewport is the one glViewport was last called with;
\* GL keeps it only while a context is current.
gl_play_update_viewport(g, w, h) ==
    [g EXCEPT !.viewport = <<w, h>>,
              !.texture = IF g.texture = 0 /\ g.current THEN 1
                          ELSE g.texture]

\* an update that does not look at the created flag
gl_play_update_ctx_unchecked(g) ==
    LET g1 == [g EXCEPT !.winsize = <<g.w, g.h>>, !.current = (g.ctx # NULL)]
        g2 == gl_play_update_viewport(g1, g1.w, g1.h)
    IN  [ret |-> 0, path |-> <<EngineState(g2)>>, g |-> g2]

\* lines 180-210, gl_play_update_ctx: [ret, g, path]. The window is resized
\* and mapped and glXMakeCurrent is called with gl_play->ctx, whatever it
\* is; what glXMakeCurrent returns is not looked at (line 207)
gl_play_update_ctx(g) ==
    IF g.created = 0 THEN [ret |-> EINVAL, path |-> <<>>, g |-> g]
    ELSE LET g1 == [g EXCEPT !.winsize = <<g.w, g.h>>,
                             !.current = (g.ctx # NULL)]
             g2 == gl_play_update_viewport(g1, g1.w, g1.h)
         IN  [ret |-> 0, path |-> <<EngineState(g2)>>, g |-> g2]

\* lines 152-165 of gl_play_create_ctx: a new window becomes
\* gl_play->drawable, on which no context is current, and what
\* glXCreateContext returns (a context if glx_ok, else NULL) gl_play->ctx
gl_play_new_window(g, glx_ok) ==
    [g EXCEPT !.drawable = 1, !.winsize = <<g.w, g.h>>, !.current = FALSE,
              !.ctx = IF glx_ok THEN 1 ELSE NULL]

\* lines 169-175 of gl_play_create_ctx: created is set and the two atoms
\* are interned, WM_PROTOCOLS only if it exists on the display
gl_play_set_created(g, proto_exists) ==
    [g EXCEPT !.created = 1,
              !.delete_atom = XInternAtom("WM_DELETE_WINDOW", FALSE, TRUE),
              !.wm_proto_atom = XInternAtom("WM_PROTOCOLS", TRUE,
                                            proto_exists)]

\* a creation that leaves the update to a later message
gl_play_create_ctx_no_update(g, glx_ok, proto_exists) ==
    LET g1 == gl_play_new_window(g, glx_ok)
    IN  IF g1.ctx = NULL THEN [ret |-> EAGAIN, path |-> <<>>, g |-> g1]
        ELSE LET g2 == gl_play_set_created(g1, proto_exists)
             IN  [ret |-> 0, path |-> <<EngineState(g2)>>, g |-> g2]

\* lines 140-178, gl_play_create_ctx: the window is created, then the GL
\* context; glx_ok tells whether glXCreateContext returns a context and
\* proto_exists whether the display has the atom WM_PROTOCOLS when line 174
\* asks for it
gl_play_create_ctx(g, glx_ok, proto_exists) ==
    LET g1 == gl_play_new_window(g, glx_ok)
    IN  IF g1.ctx = NULL THEN [ret |-> EAGAIN, path |-> <<>>, g |-> g1]
        ELSE LET g2 == gl_play_set_created(g1, proto_exists)
                 u  == gl_play_update_ctx(g2)
             IN  [ret |-> u.ret, path |-> <<EngineState(g2)>> \o u.path,
                  g |-> u.g]

\* lines 237-277, gl_handle_xevents: the queued events are taken one by one;
\* st is [g, state_flags, flags, seeks]. A ClientMessage event is one of
\* type WM_PROTOCOLS whose first data word is the atom named by detail.
RECURSIVE gl_handle_xevents(_, _)
gl_handle_xevents(st, events) ==
    IF events = <<>> THEN st
    ELSE LET e == Head(events)
             st1 ==
               CASE e.type = "KeyPress" ->
                      IF e.detail = "XK_Right"
                      THEN [st EXCEPT !.seeks = st.seeks + 1] ELSE st
                 [] e.type = "KeyRelease" ->
                      IF e.detail = "XK_Escape"
                      THEN [st EXCEPT !.flags = st.flags \cup {GLC_CANCEL}]
                      ELSE st
                 [] e.type = "DestroyNotify" ->
                      [st EXCEPT !.state_flags =
                                     st.state_flags \cup {GLC_THREAD_STOP}]
                 [] e.type = "ClientMessage" ->
                      IF /\ AtomOf("WM_PROTOCOLS") = st.g.wm_proto_atom
                         /\ AtomOf(e.detail) = st.g.delete_atom
                      THEN [st EXCEPT !.state_flags =
                                     st.state_flags \cup {GLC_THREAD_STOP}]
                      ELSE st
                 [] e.type = "ConfigureNotify" ->
                      [st EXCEPT !.g = gl_play_update_viewport(
                                           st.g, e.detail[1], e.detail[2])]
                 [] OTHER -> st
         IN  gl_handle_xevents(st1, Tail(events))

\* a teardown that posts the completion signal only after it has released a
\* context
gl_play_finish_callback_post_if_created(f, g, err) ==
    [calls |-> f.calls + 1,
     logged |-> f.logged + (IF err # 0 THEN 1 ELSE 0),
     err |-> err,
     textures_deleted |->
         f.textures_deleted + (IF g.created # 0 /\ g.texture # 0 THEN 1 ELSE 0),
     contexts_destroyed |->
         f.contexts_destroyed + (IF g.created # 0 THEN 1 ELSE 0),
     windows_destroyed |->
         f.windows_destroyed + (IF g.created # 0 THEN 1 ELSE 0),
     displays_closed |-> f.displays_closed + 1,
     posts |-> f.posts + (IF g.created # 0 THEN 1 ELSE 0)]

\* lines 100-119, gl_play_finish_callback(gl_play, err) counted on top of f:
\* the message on stderr when err is non-zero; when created is set,
\* glDeleteTextures for a non-zero texture, glXDestroyContext and
\* XDestroyWindow; then XCloseDisplay and sem_post(finished)
gl_play_finish_callback(f, g, err) ==
    [calls |-> f.calls + 1,
     logged |-> f.logged + (IF err # 0 THEN 1 ELSE 0),
     err |-> err,
     textures_deleted |->
         f.textures_deleted + (IF g.created # 0 /\ g.texture # 0 THEN 1 ELSE 0),
     contexts_destroyed |->
         f.contexts_destroyed + (IF g.created # 0 THEN 1 ELSE 0),
     windows_destroyed |->
         f.windows_destroyed + (IF g.created # 0 THEN 1 ELSE 0),
     displays_closed |-> f.displays_closed + 1,
     posts |-> f.posts + 1]

\* a PICTURE case that reads the clock and paces before it renders, and
\* renders only a frame it is going to show
gl_play_picture_paced_first(timestamp, time, fps) ==
    IF timestamp > time THEN <<"clock", "usleep", "draw", "swap">>
    ELSE IF time > timestamp + fps THEN <<"clock">>
    ELSE <<"clock", "draw", "swap">>

\* lines 322-333, the PICTURE case of gl_play_read_callback once the context
\* is known to be created: gl_play_draw_picture, util_timestamp, then usleep
\* or the early return of a stale frame, then glXSwapBuffers
gl_play_picture(timestamp, time, fps) ==
    IF timestamp > time THEN <<"draw", "clock", "usleep", "swap">>
    ELSE IF time > timestamp + fps THEN <<"draw", "clock">>
    ELSE <<"draw", "clock", "swap">>

\* lines 279-336, gl_play_read_callback for the message msg with the events
\* `events' waiting, glXCreateContext succeeding or not, WM_PROTOCOLS
\* existing or not, and util_timestamp returning `time': the engine, the
\* flags, the return code and what was done
gl_play_read_callback(g, sf, fl, msg, events, glx_ok, proto_exists, time) ==
    LET ev == gl_handle_xevents(
                  [flags |-> fl, state_flags |-> sf, g |-> g, seeks |-> 0],
                  events)
        g1 == ev.g
        base == [flags |-> ev.flags, state_flags |-> ev.state_flags, ret |-> 0,
                 trace |-> <<"xevents">>, path |-> <<>>, slept |-> 0,
                 g |-> g1]
    IN  IF GLC_THREAD_STOP \in ev.state_flags THEN base
        ELSE IF msg.type = GLC_MESSAGE_CTX THEN
            IF msg.ctx # g1.ctx_i THEN base
            ELSE LET g2 == [g1 EXCEPT !.w = msg.w, !.h = msg.h]
                 IN  IF GLC_CTX_BGR \in msg.flags /\ GLC_CTX_CREATE \in msg.flags
                     THEN LET c == gl_play_create_ctx(g2, glx_ok,
                                                      proto_exists)
                          IN  [base EXCEPT !.g = c.g,
                                           !.trace = <<"xevents", "create_ctx">>,
                                           !.path = c.path]
                     ELSE IF GLC_CTX_BGR \in msg.flags
                             /\ GLC_CTX_UPDATE \in msg.flags
                     THEN LET u == gl_play_update_ctx(g2)
                          IN  IF u.ret # 0
                              THEN [base EXCEPT !.g = u.g, !.ret = EINVAL,
                                        !.trace = <<"xevents", "update_ctx">>]
                              ELSE [base EXCEPT !.g = u.g,
                                        !.trace = <<"xevents", "update_ctx">>,
                                        !.path = u.path]
                     ELSE [base EXCEPT !.g = g2, !.ret = EINVAL]
        ELSE IF msg.type = GLC_MESSAGE_PICTURE THEN
            IF msg.ctx # g1.ctx_i THEN base
            ELSE IF g1.created = 0 THEN [base EXCEPT !.ret = EINVAL]
            ELSE [base EXCEPT
                     !.trace = <<"xevents">>
                               \o gl_play_picture(msg.timestamp, time, g1.fps),
                     !.slept = IF msg.timestamp > time
                               THEN msg.timestamp - time ELSE 0]
        ELSE base

\* the number of times a step occurs in a trace
Count(trace, step) == Cardinality({i \in 1..Len(trace) : trace[i] = step})

\* the steps of a trace up to and including the wait in usleep (line 328),
\* all of them if there is none, and the steps after it
BeforeWake(trace) ==
    IF Count(trace, "usleep") = 0 THEN trace
    ELSE SubSeq(trace, 1, CHOOSE i \in 1..Len(trace) : trace[i] = "usleep")

AfterWake(trace) == SubSeq(trace, Len(BeforeWake(trace)) + 1, Len(trace))

----------------------------------------------------------------------------
(* PlaySpec: messages are delivered to gl_play_read_callback one at a time *)
(* by the stage's single worker while the X server queues events for the   *)
(* engine's window. The worker calls back until a callback returns a       *)
(* non-zero code or sets the stop flag. A callback is one step, or two     *)
(* when it waits in usleep: the X server goes on queueing events while it  *)
(* waits.                                                                  *)

Ctxs == {1, 2}

Sizes == {<<640, 480>>, <<320, 240>>}

\* flag words of CTX messages: the two well-formed BGR ones, both lifecycle
\* bits, no lifecycle bit, the other layouts, two layouts, no bit at all
CtxFlagSets ==
    {{GLC_CTX_CREATE, GLC_CTX_BGR},
     {GLC_CTX_UPDATE, GLC_CTX_BGR},
     {GLC_CTX_CREATE, GLC_CTX_UPDATE, GLC_CTX_BGR},
     {GLC_CTX_BGR},
     {GLC_CTX_CREATE, GLC_CTX_BGRA},
     {GLC_CTX_UPDATE, GLC_CTX_YCBCR_420JPEG},
     {GLC_CTX_CREATE, GLC_CTX_BGR, GLC_CTX_BGRA},
     {}}

\* CTX messages: every flag word and size for the owned context 1; for the
\* other context, whose messages are dropped at line 294 before the flags
\* and the size are read, a create and an update of one size
ForeignCtxFlagSets ==
    {{GLC_CTX_CREATE, GLC_CTX_BGR}, {GLC_CTX_UPDATE, GLC_CTX_BGR}}

CtxMessages ==
    {[flags |-> f, type |-> GLC_MESSAGE_CTX, ctx |-> 1, w |-> sz[1],
      h |-> sz[2], timestamp |-> 0] : f \in CtxFlagSets, sz \in Sizes}
    \cup
    {[flags |-> f, type |-> GLC_MESSAGE_CTX, ctx |-> c, w |-> 320,
      h |-> 240, timestamp |-> 0] :
         c \in Ctxs \ {1}, f \in ForeignCtxFlagSets}

PictureMessages ==
    {[flags |-> {}, type |-> GLC_MESSAGE_PICTURE, ctx |-> c, w |-> 0, h |-> 0,
      timestamp |-> t] : c \in Ctxs, t \in 1..MaxTime}

OtherMessages ==
    {[flags |-> {}, type |-> GLC_MESSAGE_AUDIO, ctx |-> 0, w |-> 0, h |-> 0,
      timestamp |-> 0]}

Messages == CtxMessages \cup PictureMessages \cup OtherMessages

XEvents ==
    {[type |-> "KeyPress", detail |-> "XK_Right"],
     [type |-> "KeyRelease", detail |-> "XK_Escape"],
     [type |-> "KeyRelease", detail |-> "XK_Right"],
     [type |-> "DestroyNotify", detail |-> ""],
     [type |-> "ClientMessage", detail |-> "WM_DELETE_WINDOW"],
     [type |-> "ConfigureNotify", detail |-> <<800, 600>>]}

\* does the callback for msg, with the events waiting, reach
\* glXCreateContext (line 165) / util_timestamp (line 325)?
Creates(g, sf, fl, msg, events) ==
    Count(gl_play_read_callback(g, sf, fl, msg, events, TRUE, TRUE, 0).trace,
          "create_ctx") > 0

ReadsClock(g, sf, fl, msg, events) ==
    Count(gl_play_read_callback(g, sf, fl, msg, events, TRUE, TRUE, 0).trace,
          "clock") > 0

\* does line 174 find the atom WM_PROTOCOLS? It may not exist before the
\* engine's first XSetWMProtocols (line 175), which makes it
ProtoExists(g, creates, glx_ok) ==
    IF creates /\ glx_ok /\ g.created = 0 THEN BOOLEAN ELSE {TRUE}

StageRunning ==
    /\ GLC_THREAD_STOP \notin state_flags
    /\ \A i \in 1..Len(rets) : rets[i] = 0

PlayInit ==
    /\ ParseAtRest
    /\ HookAtRest
    /\ PlayAtRest
    /\ LifeAtRest

\* the worker invokes gl_play_read_callback, for at most the `limit'-th
\* time in a behaviour: the callback runs until it returns or waits in
\* usleep (line 328)
Deliver(limit) ==
    /\ StageRunning
    /\ fin.calls = 0
    /\ play.pc = "idle"
    /\ Len(rets) < limit
    /\ \E msg \in Messages :
       LET creates == Creates(gl_play, state_flags, flags, msg, xpending)
           clock == ReadsClock(gl_play, state_flags, flags, msg, xpending)
       IN
       \E glx_ok \in (IF creates THEN BOOLEAN ELSE {TRUE}) :
       \E proto_exists \in ProtoExists(gl_play, creates, glx_ok) :
       \E time \in (IF clock THEN 0..(MaxTime + 1) ELSE {0}) :
          LET r == gl_play_read_callback(gl_play, state_flags, flags, msg,
                                         xpending, glx_ok, proto_exists, time)
              waits == Count(r.trace, "usleep") > 0
          IN  /\ gl_play' = r.g
              /\ state_flags' = r.state_flags
              /\ flags' = r.flags
              /\ xpending' = <<>>
              /\ play' = [pc |-> IF waits THEN "usleep" ELSE "idle",
                          ret |-> r.ret, trace |-> BeforeWake(r.trace),
                          msg |-> msg, glx_ok |-> glx_ok,
                          proto_exists |-> proto_exists, time |-> time,
                          path |-> r.path, slept |-> r.slept,
                          rest |-> AfterWake(r.trace)]
              /\ rets' = IF waits THEN rets ELSE Append(rets, r.ret)
              /\ renders' = renders + Count(BeforeWake(r.trace), "draw")
    /\ UNCHANGED <<capture, call, emitted, fin>>
    /\ UNCHANGED <<parseVars, lifeVars, auxVars>>

ReadCallback == Deliver(MaxMsgs)

\* usleep returns: the callback takes its remaining steps (glXSwapBuffers,
\* line 332) and returns; the events queued meanwhile stay queued
Wake ==
    /\ play.pc = "usleep"
    /\ play' = [play EXCEPT !.trace = play.trace \o play.rest,
                            !.rest = <<>>, !.pc = "idle"]
    /\ rets' = Append(rets, play.ret)
    /\ renders' = renders + Count(play.rest, "draw")
    /\ UNCHANGED <<gl_play, state_flags, xpending, fin>>
    /\ UNCHANGED <<parseVars, hookVars, lifeVars, auxVars>>

\* the X server queues an event for the engine's window, also while the
\* callback waits in usleep
XEvent ==
    /\ StageRunning
    /\ fin.calls = 0
    /\ gl_play.drawable # 0
    /\ Len(xpending) < MaxEvents
    /\ \E e \in XEvents : xpending' = Append(xpending, e)
    /\ UNCHANGED <<gl_play, state_flags, play, rets, renders, fin>>
    /\ UNCHANGED <<parseVars, hookVars, lifeVars, auxVars>>

\* the code the worker pool hands to the finish callback: the first non-zero
\* code a read callback returned, or zero
WorkerError ==
    IF \E i \in 1..Len(rets) : rets[i] # 0
    THEN rets[CHOOSE i \in 1..Len(rets) :
                  rets[i] # 0 /\ \A j \in 1..(i - 1) : rets[j] = 0]
    ELSE 0

\* the pool has drained (its input ended, a callback failed or the stop flag
\* was set) and calls gl_play_finish_callback, once
FinishCallback ==
    /\ fin.calls = 0
    /\ play.pc = "idle"
    /\ fin' = gl_play_finish_callback(fin, gl_play, WorkerError)
    /\ UNCHANGED <<gl_play, state_flags, xpending, play, rets, renders>>
    /\ UNCHANGED <<parseVars, hookVars, lifeVars, auxVars>>

PlayNext == ReadCallback \/ Wake \/ XEvent \/ FinishCallback

PlaySpec == PlayInit /\ [][PlayNext]_vars

\* PlayLongSpec: the same stage with one more message delivered, which is
\* what it takes for a callback to start after an earlier callback has
\* handled a key event of the window that the first message created
ReadCallbackLong == Deliver(MaxMsgs + 1)

PlayLongNext == ReadCallbackLong \/ Wake \/ XEvent \/ FinishCallback

PlayLongSpec == PlayInit /\ [][PlayLongNext]_vars

----------------------------------------------------------------------------
(* Claims about the playback stage *)

\* the step is an invocation of gl_play_read_callback, up to its return or
\* to its wait in usleep
IsCallback ==
    /\ play.pc = "idle"
    /\ Len(rets') = Len(rets) + 1 \/ play'.pc = "usleep"

\* the step is the rest of an invocation that waited in usleep
IsWake == play.pc = "usleep" /\ play'.pc = "idle"

\* the last invocation of gl_play_read_callback has returned
Returned == Len(rets) > 0 /\ play.pc = "idle"

\* a destroy event is among the events, or a close request of the window
\* manager, which sends one once the engine has announced the protocol
\* (XSetWMProtocols, line 175, reached when created is set)
StopRequested(g, events) ==
    \E i \in 1..Len(events) :
        \/ events[i].type = "DestroyNotify"
        \/ /\ events[i].type = "ClientMessage"
           /\ events[i].detail = "WM_DELETE_WINDOW"
           /\ g.created # 0

OwnCtx(msg) == msg.type = GLC_MESSAGE_CTX /\ msg.ctx = gl_play.ctx_i

OwnPicture(msg) == msg.type = GLC_MESSAGE_PICTURE /\ msg.ctx = gl_play.ctx_i

Foreign(msg) ==
    /\ msg.type \in {GLC_MESSAGE_CTX, GLC_MESSAGE_PICTURE}
    /\ msg.ctx # gl_play.ctx_i

\* C8: an uninitialized engine that gets CTX{CREATE|BGR} for its own context
\* passes through CREATED to ACTIVE with the message's width and height and
\* returns zero without rendering; an active engine that then gets a PICTURE
\* for its context renders exactly once and returns zero (in both cases with
\* the GL context obtained and no close of the window waiting); a PICTURE or
\* CTX for another context returns zero, renders nothing and leaves the
\* created flag, the width and the height as they were. A callback that
\* waited in usleep returns the zero it was going to return and renders
\* nothing more.
C8_CreateThenPicture ==
    [][/\ IsWake =>
            /\ rets' = Append(rets, 0)
            /\ renders' = renders
            /\ gl_play' = gl_play
       /\ IsCallback =>
            /\ (/\ OwnCtx(play'.msg)
                /\ play'.msg.flags = {GLC_CTX_CREATE, GLC_CTX_BGR}
                /\ EngineState(gl_play) = "UNINITIALIZED"
                /\ play'.glx_ok
                /\ ~StopRequested(gl_play, xpending))
               => /\ play'.ret = 0
                  /\ play'.pc = "idle"
                  /\ play'.path = <<"CREATED", "ACTIVE">>
                  /\ EngineState(gl_play') = "ACTIVE"
                  /\ gl_play'.w = play'.msg.w
                  /\ gl_play'.h = play'.msg.h
                  /\ renders' = renders
            /\ (/\ OwnPicture(play'.msg)
                /\ EngineState(gl_play) = "ACTIVE"
                /\ ~StopRequested(gl_play, xpending))
               => /\ play'.ret = 0
                  /\ renders' = renders + 1
                  /\ EngineState(gl_play') = "ACTIVE"
            /\ Foreign(play'.msg)
               => /\ play'.ret = 0
                  /\ play'.pc = "idle"
                  /\ renders' = renders
                  /\ gl_play'.created = gl_play.created
                  /\ gl_play'.w = gl_play.w
                  /\ gl_play'.h = gl_play.h
                  /\ EngineState(gl_play') = EngineState(gl_play)
      ]_vars

\* CTX{CREATE|BGR, 640x480} then PICTURE for the owned context: two zero
\* returns, one render, the engine ACTIVE at 640x480
C8_Witness ==
    /\ rets = <<0, 0>>
    /\ renders = 1
    /\ OwnPicture(play.msg)
    /\ EngineState(gl_play) = "ACTIVE"
    /\ gl_play.w = 640
    /\ gl_play.h = 480

\* C9: a CTX with lifecycle UPDATE for the owned context that reaches an
\* engine whose context is not created returns a non-zero code, renders
\* nothing and leaves the engine UNINITIALIZED; before any CREATE there is
\* no window, so no event can be waiting to stop the worker first.
C9_UpdateBeforeCreate ==
    /\ [](gl_play.drawable = 0 => xpending = <<>> /\ gl_play.created = 0)
    /\ [][IsCallback =>
            ((/\ OwnCtx(play'.msg)
              /\ GLC_CTX_UPDATE \in play'.msg.flags
              /\ GLC_CTX_CREATE \notin play'.msg.flags
              /\ gl_play.created = 0
              /\ ~StopRequested(gl_play, xpending))
             => /\ play'.ret # 0
                /\ play'.pc = "idle"
                /\ renders' = renders
                /\ EngineState(gl_play') = "UNINITIALIZED")
        ]_vars

C9_Witness ==
    /\ Len(rets) = 1
    /\ rets[1] = EINVAL
    /\ OwnCtx(play.msg)
    /\ play.msg.flags = {GLC_CTX_UPDATE, GLC_CTX_BGR}
    /\ renders = 0
    /\ gl_play.drawable = 0
    /\ EngineState(gl_play) = "UNINITIALIZED"

\* C10: a PICTURE for the owned context that arrives while the context is not
\* ACTIVE is ignored: the callback returns zero, neither renders nor swaps,
\* and the stage keeps running.
C10_PictureBeforeActiveIgnored ==
    (/\ Returned
     /\ OwnPicture(play.msg)
     /\ EngineState(gl_play) # "ACTIVE"
     /\ GLC_THREAD_STOP \notin state_flags)
    => /\ play.ret = 0
       /\ Count(play.trace, "draw") = 0
       /\ Count(play.trace, "swap") = 0
       /\ StageRunning

\* the layouts gl_play_read_callback can display (lines 301-306 test BGR only)
SupportedLayouts == {GLC_CTX_BGR}

\* exactly one lifecycle bit, exactly one layout bit, and a supported layout
WellFormedCtx(f) ==
    /\ Cardinality(f \cap {GLC_CTX_CREATE, GLC_CTX_UPDATE}) = 1
    /\ Cardinality(f \cap {GLC_CTX_BGR, GLC_CTX_BGRA, GLC_CTX_YCBCR_420JPEG}) = 1
    /\ f \cap SupportedLayouts # {}

\* C11: a CTX message for the owned context that the callback examines (no
\* stop was requested) and whose flag word is not one lifecycle bit with one
\* supported layout bit makes the callback return a non-zero code without
\* creating or reconfiguring the surface.
C11_CtxFlagsValidated ==
    (/\ Returned
     /\ OwnCtx(play.msg)
     /\ GLC_THREAD_STOP \notin state_flags
     /\ ~WellFormedCtx(play.msg.flags))
    => /\ play.ret # 0
       /\ Count(play.trace, "create_ctx") = 0
       /\ Count(play.trace, "update_ctx") = 0

\* the lengths, in ticks of the playback clock, that one frame interval of a
\* session with a positive target frame rate (glc->fps) can have
FrameIntervals == 1..MaxTime

\* the last callback examined a PICTURE for the owned context of an engine
\* whose context is ACTIVE, and has returned
PictureOnActive ==
    /\ Returned
    /\ OwnPicture(play.msg)
    /\ EngineState(gl_play) = "ACTIVE"
    /\ GLC_THREAD_STOP \notin state_flags

\* C12: for a PICTURE with timestamp T on the owned ACTIVE context and the
\* clock C read after rendering, with I one target-frame interval: C < T
\* sleeps T - C and swaps; T <= C <= T + I swaps without sleeping; the swap
\* is skipped only if C > T + I.
C12_PacingWithinInterval ==
    PictureOnActive =>
        \A I \in FrameIntervals :
            LET T == play.msg.timestamp
                C == play.time
                swaps == Count(play.trace, "swap")
                sleeps == Count(play.trace, "usleep")
            IN  /\ C < T => sleeps = 1 /\ play.slept = T - C /\ swaps = 1
                /\ (T <= C /\ C <= T + I) => sleeps = 0 /\ swaps = 1
                /\ swaps = 0 => C > T + I

\* the places of a step in a trace
Places(trace, step) == {i \in 1..Len(trace) : trace[i] = step}

\* every occurrence of step a comes before every occurrence of step b
Before(trace, a, b) ==
    \A i \in Places(trace, a) : \A j \in Places(trace, b) : i < j

\* C13: a PICTURE for the owned ACTIVE context is rendered exactly once, and
\* the render comes before the clock read, the clock read before the sleep
\* and the sleep before the swap; the frame is rendered also when it is
\* judged stale and not swapped. While the callback waits in usleep the
\* picture is rendered and not yet swapped.
C13_RenderBeforePacing ==
    /\ [](play.pc = "usleep" =>
            /\ Count(play.trace, "draw") = 1
            /\ Count(play.trace, "swap") = 0
            /\ Count(play.rest, "draw") = 0
            /\ Count(play.rest, "swap") = 1)
    /\ [](PictureOnActive =>
            /\ Count(play.trace, "draw") = 1
            /\ Count(play.trace, "clock") = 1
            /\ Before(play.trace, "draw", "clock")
            /\ Before(play.trace, "clock", "usleep")
            /\ Before(play.trace, "clock", "swap")
            /\ Before(play.trace, "usleep", "swap")
            /\ (play.time > play.msg.timestamp + gl_play.fps
                => Count(play.trace, "swap") = 0))
    /\ [][(/\ IsCallback
           /\ OwnPicture(play'.msg)
           /\ EngineState(gl_play) = "ACTIVE"
           /\ ~StopRequested(gl_play, xpending))
          => renders' = renders + 1]_vars

\* a stale frame was rendered and not swapped
C13_Witness ==
    /\ PictureOnActive
    /\ play.time > play.msg.timestamp
    /\ play.trace = <<"xevents", "draw", "clock">>
    /\ renders = 1

\* C14: the finish callback posts the completion signal exactly once for the
\* stage, whatever the error code and whatever the state of the engine (also
\* UNINITIALIZED); the texture, the GL context and the window are released
\* only when a context was created; the display is always closed.
C14_FinishPostsOnce ==
    /\ fin.posts <= 1
    /\ fin.calls = 1
       => /\ fin.posts = 1
          /\ fin.displays_closed = 1
          /\ fin.err = WorkerError
          /\ gl_play.created = 0
             => /\ fin.textures_deleted = 0
                /\ fin.contexts_destroyed = 0
                /\ fin.windows_destroyed = 0
          /\ gl_play.created # 0
             => /\ fin.textures_deleted = (IF gl_play.texture # 0 THEN 1 ELSE 0)
                /\ fin.contexts_destroyed = 1
                /\ fin.windows_destroyed = 1

\* the stage failed before any context was created and was torn down: the
\* signal is posted and the display closed with nothing else to release
C14_Witness ==
    /\ fin.calls = 1
    /\ fin.err = EINVAL
    /\ EngineState(gl_play) = "UNINITIALIZED"
    /\ fin.posts = 1
    /\ fin.displays_closed = 1
    /\ fin.contexts_destroyed = 0

\* a resize of the window is among the events
Resized(events) ==
    \E i \in 1..Len(events) : events[i].type = "ConfigureNotify"

\* C15: every invocation of gl_play_read_callback first takes all waiting
\* events; if a destroy event or a close request is among them the stop flag
\* is set and the callback returns zero without examining the message (no
\* change of the context, no render, no swap); a resize changes neither the
\* created flag nor the stored width and height of the context.
C15_EventsDrainedFirst ==
    [][IsCallback =>
        /\ xpending' = <<>>
        /\ Head(play'.trace) = "xevents"
        /\ Count(play'.trace, "xevents") = 1
        /\ StopRequested(gl_play, xpending)
           => /\ GLC_THREAD_STOP \in state_flags'
              /\ play'.ret = 0
              /\ play'.trace = <<"xevents">>
              /\ renders' = renders
              /\ gl_play'.created = gl_play.created
              /\ gl_play'.current = gl_play.current
              /\ gl_play'.drawable = gl_play.drawable
              /\ gl_play'.w = gl_play.w
              /\ gl_play'.h = gl_play.h
        /\ (Resized(xpending) /\ ~OwnCtx(play'.msg))
           => /\ gl_play'.created = gl_play.created
              /\ gl_play'.w = gl_play.w
              /\ gl_play'.h = gl_play.h
      ]_vars

\* C16: an invocation of gl_play_read_callback that starts when GLC_CANCEL
\* is already set in the session's flags neither renders nor swaps.
C16_CancelStopsRendering ==
    [][(IsCallback /\ HasFlag(flags, GLC_CANCEL))
       => /\ renders' = renders
          /\ Count(play'.trace, "draw") = 0
          /\ Count(play'.trace, "swap") = 0
      ]_vars

----------------------------------------------------------------------------
(* The life cycle of the capture layer: alsa_init, alsa_start, alsa_pause, *)
(* alsa_resume and alsa_close of src/hook/alsa.c. `a' is the alsa          *)
(* structure: [started, capture, audio_hook, capture_stream].              *)

\* atoi of a string of this model's environment (digits first, no sign)
atoi(s) == DigitsValue(s, 1, DigitsEnd(s, 1), 0)

\* the handles of the nodes that have one, head of the list first
LiveHandles(list) ==
    LET live == SelectSeq(list, LAMBDA node : node.capture # NULL)
    IN  [i \in 1..Len(live) |-> live[i].capture]

\* lines 60-83, alsa_init with the environment env (the variables that are
\* set, with their values) and the library lib: [a, flags, loader]
alsa_init(a, fl, l, env, lib) ==
    [flags |-> IF "GLC_AUDIO_SKIP" \in DOMAIN env /\ atoi(env.GLC_AUDIO_SKIP) # 0
               THEN fl \cup {GLC_AUDIO_ALLOW_SKIP} ELSE fl,
     loader |-> get_real_alsa(l, 1, lib),
     a |-> [a EXCEPT
              !.started = 0,
              !.capture = IF "GLC_AUDIO" \in DOMAIN env
                          THEN atoi(env.GLC_AUDIO) ELSE 1,
              !.capture_stream =
                  IF "GLC_AUDIO_RECORD" \in DOMAIN env
                  THEN alsa_parse_capture_cfg(env.GLC_AUDIO_RECORD, <<>>)
                  ELSE <<>>]]

\* eh_set_rel(&so, sym, addr): the entry sym of the object is bound to what
\* addr points to, "NULL" for a null pointer
eh_set_rel(obj, sym, target, addr) ==
    [obj EXCEPT !.rel[sym] = IF addr = NULL THEN "NULL" ELSE target]

\* lines 253-275, alsa_unhook_so on the object obj: the real entry points are
\* resolved first if they are not yet; find_ret is what eh_find_obj returns.
\* [loader, so, ret]
alsa_unhook_so(obj, l, lib, find_ret) ==
    LET l1 == IF l.alsa_loaded = 0 THEN get_real_alsa(l, 1, lib) ELSE l
        o1 == eh_set_rel(obj, "snd_pcm_writei", "real", l1.real[2])
        o2 == eh_set_rel(o1, "snd_pcm_writen", "real", l1.real[3])
        o3 == eh_set_rel(o2, "snd_pcm_mmap_begin", "real", l1.real[4])
        o4 == eh_set_rel(o3, "snd_pcm_mmap_commit", "real", l1.real[5])
        o5 == eh_set_rel(o4, "dlsym", "lib.dlsym", 1)
        o6 == eh_set_rel(o5, "dlvsym", "lib.dlvsym", 1)
    IN  IF l1.exited THEN [loader |-> l1, so |-> obj, ret |-> 0]
        ELSE IF find_ret # 0 THEN [loader |-> l1, so |-> obj, ret |-> find_ret]
        ELSE [loader |-> l1, so |-> o6, ret |-> 0]

\* an alsa_start that unhooks libasound.so before it looks at `started'
alsa_start_unhook_first(a, l, lib, hook, handles, obj, find_ret) ==
    LET u == alsa_unhook_so(obj, l, lib, find_ret)
        l1 == u.loader
        none == [loader |-> l1, so |-> u.so, ret |-> EINVAL, unhooks |-> 1,
                 hook_inits |-> 0, opened |-> <<>>, a |-> a]
    IN  IF l1.exited THEN [none EXCEPT !.ret = 0]
        ELSE IF a.started # 0 THEN none
        ELSE IF a.capture # 0 /\ hook = NULL
        THEN [none EXCEPT !.a = [a EXCEPT !.audio_hook = NULL],
                          !.ret = EAGAIN, !.hook_inits = 1]
        ELSE [none EXCEPT
                !.a = [a EXCEPT
                         !.audio_hook = IF a.capture # 0 THEN hook ELSE @,
                         !.capture_stream =
                             [i \in 1..Len(a.capture_stream) |->
                                 [a.capture_stream[i] EXCEPT
                                     !.capture = handles[i]]],
                         !.started = 1],
                !.ret = 0,
                !.hook_inits = IF a.capture # 0 THEN 1 ELSE 0,
                !.opened = [i \in 1..Len(a.capture_stream) |->
                               [device |-> a.capture_stream[i].device,
                                rate |-> a.capture_stream[i].rate,
                                channels |-> a.capture_stream[i].channels,
                                handle |-> handles[i]]]]

\* lines 131-155, alsa_start: hook is what audio_hook_init returns and
\* handles[i] what audio_capture_init returns for the i-th node (NULL when
\* it fails); obj is the loaded libasound.so and find_ret what eh_find_obj
\* returns for it. [a, loader, so, ret, unhooks, hook_inits, opened]
alsa_start(a, l, lib, hook, handles, obj, find_ret) ==
    LET none == [loader |-> l, so |-> obj, ret |-> EINVAL, unhooks |-> 0,
                 hook_inits |-> 0, opened |-> <<>>, a |-> a]
        u == alsa_unhook_so(obj, l, lib, find_ret)
        l1 == u.loader
    IN  IF a.started # 0 THEN none
        ELSE IF l1.exited
        THEN [none EXCEPT !.loader = l1, !.ret = 0, !.unhooks = 1]
        ELSE IF a.capture # 0 /\ hook = NULL
        THEN [none EXCEPT !.a = [a EXCEPT !.audio_hook = NULL],
                          !.loader = l1, !.so = u.so, !.ret = EAGAIN,
                          !.unhooks = 1, !.hook_inits = 1]
        ELSE [none EXCEPT
                !.a = [a EXCEPT
                         !.audio_hook = IF a.capture # 0 THEN hook ELSE @,
                         !.capture_stream =
                             [i \in 1..Len(a.capture_stream) |->
                                 [a.capture_stream[i] EXCEPT
                                     !.capture = handles[i]]],
                         !.started = 1],
                !.loader = l1,
                !.so = u.so,
                !.ret = 0,
                !.unhooks = 1,
                !.hook_inits = IF a.capture # 0 THEN 1 ELSE 0,
                !.opened = [i \in 1..Len(a.capture_stream) |->
                               [device |-> a.capture_stream[i].device,
                                rate |-> a.capture_stream[i].rate,
                                channels |-> a.capture_stream[i].channels,
                                handle |-> handles[i]]]]

\* an alsa_close that hands every node's handle to audio_capture_close
alsa_close_every_node(a) ==
    IF a.started = 0
    THEN [ret |-> 0, hook_closes |-> 0, forwarded |-> <<>>, a |-> a]
    ELSE [ret |-> 0,
          hook_closes |-> IF a.capture # 0 THEN 1 ELSE 0,
          forwarded |-> [i \in 1..Len(a.capture_stream) |->
                            a.capture_stream[i].capture],
          a |-> [a EXCEPT !.capture_stream = <<>>]]

\* lines 157-181, alsa_close: nothing when not started; else audio_hook_close
\* when capturing, then every node is unlinked and freed, its handle closed
\* when it has one. [a, ret, hook_closes, forwarded]
alsa_close(a) ==
    IF a.started = 0
    THEN [ret |-> 0, hook_closes |-> 0, forwarded |-> <<>>, a |-> a]
    ELSE [ret |-> 0,
          hook_closes |-> IF a.capture # 0 THEN 1 ELSE 0,
          forwarded |-> LiveHandles(a.capture_stream),
          a |-> [a EXCEPT !.capture_stream = <<>>]]

\* lines 183-194, alsa_pause: audio_capture_pause for every node with a handle
alsa_pause(a) ==
    [ret |-> 0, forwarded |-> LiveHandles(a.capture_stream), a |-> a]

\* lines 196-207, alsa_resume: audio_capture_resume for every node with a
\* handle
alsa_resume(a) ==
    [ret |-> 0, forwarded |-> LiveHandles(a.capture_stream), a |-> a]

----------------------------------------------------------------------------
(* LifeSpec: the five calls in any order, on one thread, from the zeroed   *)
(* static storage of the layer                                             *)

\* lifecycle calls in one behaviour
MaxOps == 5

\* environments of the process: GLC_AUDIO, GLC_AUDIO_SKIP and
\* GLC_AUDIO_RECORD, each set or not
Environments ==
    {[GLC_AUDIO_RECORD |-> <<"a">>],
     [GLC_AUDIO |-> <<"0">>, GLC_AUDIO_RECORD |-> <<"a", ";", "a", ",", "1", ",", "2">>],
     [GLC_AUDIO_SKIP |-> <<"1">>, GLC_AUDIO |-> <<"1">>,
      GLC_AUDIO_RECORD |-> <<"a", ";", "a", ",", "1", ",", "2">>],
     [GLC_AUDIO_SKIP |-> <<"0">>]}

\* what eh_find_obj can return: 0 when an object matches the pattern, an
\* error code (ENOENT, EAGAIN) when none does
FindResults == {0, 2, EAGAIN}

\* the audio hook module after alsa_start on the structure a with result r:
\* line 142 stores what audio_hook_init returns, a new object or NULL, and a
\* start that succeeds (line 153) begins a new round of closes
AfterStart(h, a, r) ==
    [h EXCEPT !.live = IF r.hook_inits = 1 THEN r.a.audio_hook # NULL ELSE @,
              !.closes = IF a.started = 0 /\ r.a.started # 0 THEN 0 ELSE @]

\* the audio hook module after alsa_close with result r: line 167 hands
\* alsa.audio_hook to audio_hook_close, which destroys the object
AfterClose(h, r) ==
    IF r.hook_closes = 1
    THEN [h EXCEPT !.live = FALSE, !.closes = @ + 1]
    ELSE h

\* lines 300, 314, 328 and 342: an intercepted call that emits passes
\* alsa.audio_hook as the first argument of the emission function
AfterCall(h, a, c) ==
    [h EXCEPT !.passed = [used |-> Emits(c),
                          handle |-> IF Emits(c) THEN a.audio_hook ELSE NULL]]

\* the alsa structure as the variables hold it
Alsa ==
    [capture_stream |-> capture_stream, capture |-> capture, started |-> started,
     audio_hook |-> audio_hook]

\* the variables take the fields of the structure a
SetAlsa(a) ==
    /\ started' = a.started
    /\ capture' = a.capture
    /\ audio_hook' = a.audio_hook
    /\ capture_stream' = a.capture_stream

\* a call can be made: the process is alive and the bound is not reached
CanCall == ~loader.exited /\ life.n < MaxOps

\* the record of a call: the effects of this call, and the history
Called(op, ret, eff) ==
    [next |-> life.next + Len(eff.opened),
     op |-> op, ret |-> ret,
     unhooks |-> eff.unhooks, hook_inits |-> eff.hook_inits,
     hook_closes |-> eff.hook_closes, opened |-> eff.opened,
     forwarded |-> eff.forwarded,
     closed |-> life.closed \o eff.closed,
     n |-> life.n + 1]

NoEffect ==
    [unhooks |-> 0, hook_inits |-> 0, hook_closes |-> 0, opened |-> <<>>,
     forwarded |-> <<>>, closed |-> <<>>]

LifeInit ==
    /\ cfg = <<>>
    /\ device = NULL
    /\ capture_stream = <<>>
    /\ ppc = "done"
    /\ flags = {}
    /\ capture = 0
    /\ call = NoCall
    /\ emitted = <<>>
    /\ PlayAtRest
    /\ started = 0
    /\ audio_hook = NULL
    /\ life = NoLife
    /\ loader = NotLoaded
    /\ libasound \in Libraries
    /\ upd = NoUpdate
    /\ AuxAtRest

AlsaInit ==
    /\ CanCall
    /\ \E env \in Environments :
          LET r == alsa_init(Alsa, flags, loader, env, libasound)
          IN  /\ SetAlsa(r.a)
              /\ flags' = r.flags
              /\ loader' = r.loader
              /\ life' = Called("alsa_init", 0, NoEffect)
    /\ UNCHANGED <<cfg, device, ppc, call, emitted, libasound, upd>>
    /\ UNCHANGED <<playVars, auxVars>>

AlsaStart ==
    /\ CanCall
    /\ \E hook \in (IF started = 0 /\ capture # 0 THEN {NULL, 1} ELSE {1}) :
       \E find_ret \in (IF started = 0 THEN FindResults ELSE {0}) :
       \E ok \in [1..Len(capture_stream) -> BOOLEAN] :
          LET handles == [i \in 1..Len(capture_stream) |->
                             IF ok[i] THEN life.next + i - 1 ELSE NULL]
              r == alsa_start(Alsa, loader, libasound, hook, handles,
                              so, find_ret)
          IN  /\ SetAlsa(r.a)
              /\ loader' = r.loader
              /\ so' = r.so
              /\ hooks' = AfterStart(hooks, Alsa, r)
              /\ life' = Called("alsa_start", r.ret,
                                [NoEffect EXCEPT !.unhooks = r.unhooks,
                                                 !.hook_inits = r.hook_inits,
                                                 !.opened = r.opened])
    /\ UNCHANGED <<cfg, device, ppc, flags, call, emitted, libasound, upd>>
    /\ UNCHANGED <<playVars, wire>>

\* alsa_unhook_so("*libasound.so*") called on its own, as the layer's dlopen
\* wrapper does when the host loads an object
AlsaUnhook ==
    /\ CanCall
    /\ \E find_ret \in FindResults :
          LET r == alsa_unhook_so(so, loader, libasound, find_ret)
          IN  /\ loader' = r.loader
              /\ so' = r.so
              /\ life' = Called("alsa_unhook_so", r.ret,
                                [NoEffect EXCEPT !.unhooks = 1])
    /\ UNCHANGED <<cfg, device, capture_stream, ppc, flags, capture, call,
                   emitted, started, audio_hook, libasound, upd>>
    /\ UNCHANGED <<playVars, wire, hooks>>

AlsaPause ==
    /\ CanCall
    /\ LET r == alsa_pause(Alsa)
       IN  /\ SetAlsa(r.a)
           /\ life' = Called("alsa_pause", r.ret,
                             [NoEffect EXCEPT !.forwarded = r.forwarded])
    /\ UNCHANGED <<cfg, device, ppc, flags, call, emitted, loader, libasound, upd>>
    /\ UNCHANGED <<playVars, auxVars>>

AlsaResume ==
    /\ CanCall
    /\ LET r == alsa_resume(Alsa)
       IN  /\ SetAlsa(r.a)
           /\ life' = Called("alsa_resume", r.ret,
                             [NoEffect EXCEPT !.forwarded = r.forwarded])
    /\ UNCHANGED <<cfg, device, ppc, flags, call, emitted, loader, libasound, upd>>
    /\ UNCHANGED <<playVars, auxVars>>

AlsaClose ==
    /\ CanCall
    /\ LET r == alsa_close(Alsa)
       IN  /\ SetAlsa(r.a)
           /\ hooks' = AfterClose(hooks, r)
           /\ life' = Called("alsa_close", r.ret,
                             [NoEffect EXCEPT !.hook_closes = r.hook_closes,
                                              !.forwarded = r.forwarded,
                                              !.closed = r.forwarded])
    /\ UNCHANGED <<cfg, device, ppc, flags, call, emitted, loader, libasound, upd>>
    /\ UNCHANGED <<playVars, wire, so>>

LifeNext ==
    \/ AlsaInit
    \/ AlsaStart
    \/ AlsaUnhook
    \/ AlsaPause
    \/ AlsaResume
    \/ AlsaClose

LifeSpec == LifeInit /\ [][LifeNext]_vars

----------------------------------------------------------------------------
(* HandleSpec: the lifecycle calls interleaved with intercepted write and  *)
(* mmap calls of the host, the session capturing (GLC_CAPTURE set).        *)

HandleInit ==
    /\ ParseAtRest
    /\ PlayAtRest
    /\ flags = {GLC_CAPTURE}
    /\ capture = 0
    /\ call = NoCall
    /\ emitted = <<>>
    /\ started = 0
    /\ audio_hook = NULL
    /\ life = NoLife
    /\ loader = NotLoaded
    /\ libasound = FullLibrary
    /\ upd = NoUpdate
    /\ AuxAtRest

\* an intercepted call with the observation c; INIT_GLC has run alsa_init
\* before the body of the entry point
Intercepted(c) ==
    /\ CanCall
    /\ loader.alsa_loaded # 0
    /\ call' = c
    /\ hooks' = AfterCall(hooks, Alsa, c)
    /\ life' = Called(c.fn, c.ret, NoEffect)
    /\ UNCHANGED <<cfg, device, capture_stream, ppc, flags, capture, emitted,
                   started, audio_hook, loader, libasound, upd>>
    /\ UNCHANGED <<playVars, wire, so>>

\* lines 290-302
HostWritei ==
    \E real \in WriteResults(1) : Intercepted(alsa_snd_pcm_writei(1, real, 0))

\* lines 304-316
HostWriten ==
    \E real \in WriteResults(1) : Intercepted(alsa_snd_pcm_writen(1, real, 0))

\* lines 318-330
HostMmapBegin ==
    \E real \in IntResults : Intercepted(alsa_snd_pcm_mmap_begin(1, real, 0))

\* lines 332-348
HostMmapCommit ==
    \E real \in WriteResults(1) :
        Intercepted(alsa_snd_pcm_mmap_commit(1, real, 0))

HandleNext ==
    \/ AlsaInit
    \/ AlsaStart
    \/ AlsaUnhook
    \/ AlsaPause
    \/ AlsaResume
    \/ AlsaClose
    \/ HostWritei
    \/ HostWriten
    \/ HostMmapBegin
    \/ HostMmapCommit

HandleSpec == HandleInit /\ [][HandleNext]_vars

----------------------------------------------------------------------------
(* Claims about the life cycle of the capture layer *)

\* the step is a call of the lifecycle function op
IsCall(op) == life'.n = life.n + 1 /\ life'.op = op

\* C17: alsa_start on a layer that is already started returns EINVAL and
\* changes nothing: libasound.so is not unhooked again, no audio hook is
\* created, no capture handle is opened or replaced, and the started flag,
\* the endpoint list and the rest of the layer's state stay as they were.
C17_StartWhenStarted ==
    [][(IsCall("alsa_start") /\ started # 0)
       => /\ life'.ret = EINVAL
          /\ life'.unhooks = 0
          /\ life'.hook_inits = 0
          /\ life'.opened = <<>>
          /\ life'.next = life.next
          /\ started' = started
          /\ audio_hook' = audio_hook
          /\ capture_stream' = capture_stream
          /\ capture' = capture
          /\ flags' = flags
          /\ loader' = loader
      ]_vars

\* a second alsa_start after one that opened a handle and an audio hook
C17_Witness ==
    /\ life.op = "alsa_start"
    /\ life.ret = EINVAL
    /\ started = 1
    /\ audio_hook # NULL
    /\ Len(LiveHandles(capture_stream)) >= 1

\* a successful alsa_start asks for one capture instance per endpoint, with
\* the endpoint's device, rate and channels, and stores what it gets
StartOpensEach ==
    (IsCall("alsa_start") /\ life'.ret = 0 /\ ~loader'.exited)
    => /\ started' = 1
       /\ Len(life'.opened) = Len(capture_stream)
       /\ Len(capture_stream') = Len(capture_stream)
       /\ \A i \in 1..Len(capture_stream) :
             /\ life'.opened[i].device = capture_stream[i].device
             /\ life'.opened[i].rate = capture_stream[i].rate
             /\ life'.opened[i].channels = capture_stream[i].channels
             /\ capture_stream'[i] =
                   [capture_stream[i] EXCEPT !.capture = life'.opened[i].handle]

\* pause, resume and close are forwarded to exactly the nodes with a handle
ForwardsToLive ==
    (IsCall("alsa_pause") \/ IsCall("alsa_resume") \/ IsCall("alsa_close"))
    => /\ life'.forwarded = LiveHandles(capture_stream)
       /\ (started = 0 => life'.forwarded = <<>>)
       /\ life'.ret = 0

\* no handle is closed twice, and NULL is never closed
ClosedOnce ==
    /\ \A i, j \in 1..Len(life.closed) :
          life.closed[i] = life.closed[j] => i = j
    /\ \A i \in 1..Len(life.closed) : life.closed[i] # NULL

\* C18 as stated: in any sequence of the five calls a successful alsa_start
\* opens one capture instance per endpoint and stores its handle; pause,
\* resume and close go to exactly the endpoints with a live handle; alsa_close
\* closes each live handle once and leaves the endpoint list empty.
C18_CloseAlwaysEmpties ==
    /\ []ClosedOnce
    /\ [][/\ StartOpensEach
          /\ ForwardsToLive
          /\ IsCall("alsa_close") => capture_stream' = <<>>
         ]_vars

\* C18 with alsa_close told apart by the started flag: after a successful
\* alsa_start it closes each live handle once and leaves the endpoint list
\* empty; on a layer that is not started it returns 0 and leaves the list,
\* parsed by alsa_init, as it is.
C18_CloseEmptiesWhenStarted ==
    /\ []ClosedOnce
    /\ [](started = 0 => LiveHandles(capture_stream) = <<>>)
    /\ [][/\ StartOpensEach
          /\ ForwardsToLive
          /\ (IsCall("alsa_close") /\ started # 0)
             => /\ capture_stream' = <<>>
                /\ life'.closed = life.closed \o LiveHandles(capture_stream)
          /\ (IsCall("alsa_close") /\ started = 0)
             => /\ capture_stream' = capture_stream
                /\ life'.closed = life.closed
                /\ life'.hook_closes = 0
         ]_vars

\* two endpoints were started, one of them without getting a handle, and
\* alsa_close closed the one live handle and emptied the list
C18_Witness ==
    /\ life.op = "alsa_close"
    /\ started = 1
    /\ capture_stream = <<>>
    /\ Len(life.closed) = 1
    /\ Len(life.forwarded) = 1
    /\ life.next = 3

----------------------------------------------------------------------------
(* LoadSpec: host threads call get_real_alsa and run through it line by    *)
(* line; the function takes no lock, so their steps interleave freely,     *)
(* those of the error path (test, goto err, fprintf, exit) with the rest   *)

\* calls of get_real_alsa by one thread in one behaviour
MaxEntries == 2

LoadInit ==
    /\ ParseAtRest
    /\ HookAtRest
    /\ PlayAtRest
    /\ started = 0
    /\ audio_hook = NULL
    /\ life = NoLife
    /\ loader = NotLoaded
    /\ libasound \in Libraries
    /\ upd = NoUpdate
    /\ AuxAtRest

\* thread t calls get_real_alsa, while the process lives
LoadEnter(t) ==
    /\ ~loader.exited
    /\ loader.pc[t] = 0
    /\ loader.calls[t] < MaxEntries
    /\ loader' = get_real_alsa_enter(loader, t)
    /\ UNCHANGED <<started, audio_hook, life, libasound, upd>>
    /\ UNCHANGED <<parseVars, hookVars, playVars, auxVars>>

\* thread t executes the line it is at; a thread on the error path does not
\* hold the others up, they stop when exit(1) at line 250 has ended the
\* process
LoadStep(t) ==
    /\ ~loader.exited
    /\ loader.pc[t] # 0
    /\ loader' = get_real_alsa_step(loader, t, libasound)
    /\ UNCHANGED <<started, audio_hook, life, libasound, upd>>
    /\ UNCHANGED <<parseVars, hookVars, playVars, auxVars>>

LoadNext == \E t \in Threads : LoadEnter(t) \/ LoadStep(t)

LoadSpec == LoadInit /\ [][LoadNext]_vars

\* C19: the library handle and the five real entry points are resolved once
\* and never written again, also when threads make their first calls of
\* get_real_alsa at the same time: at most one thread runs dlopen and the
\* dlsym calls, alsa_loaded is never set while an entry point is unset, and
\* with the library or a symbol missing no call returns.
C19_ResolvedExactlyOnce ==
    /\ Cardinality(loader.loaders) <= 1
    /\ \A i \in 1..Len(Symbols) : loader.stores[i] <= 1
    /\ loader.alsa_loaded # 0
       => /\ loader.libasound_handle # NULL
          /\ \A i \in 1..Len(Symbols) : loader.real[i] # NULL
    /\ \A t \in Threads :
          (loader.calls[t] > 0 /\ loader.pc[t] = 0)
          => loader.alsa_loaded # 0 /\ libasound = FullLibrary

----------------------------------------------------------------------------
(* FlagSpec: one thread runs the statement `glc->flags |= bit' of          *)
(* gl_handle_xevents (GLC_CANCEL) or of alsa_init (GLC_AUDIO_ALLOW_SKIP)   *)
(* while another thread switches GLC_CAPTURE. flags is a plain u_int32_t   *)
(* (glc.h lines 97, 155) and the statement a load, an or and a store.      *)

\* executions of the statement in one behaviour
MaxUpdates == 3

\* the bits the code sets with `glc->flags |= bit': gl_play.c line 257 and
\* alsa.c line 75
UpdatedBits == {GLC_CANCEL, GLC_AUDIO_ALLOW_SKIP}

\* the value that `glc->flags |= bit' stores: the loaded value reg with the
\* bit set
flags_or(reg, bit) == reg \cup {bit}

\* the session starts with capturing on or off and with audio skipping
\* allowed or not
FlagInit ==
    /\ ParseAtRest
    /\ flags \in SUBSET {GLC_CAPTURE, GLC_AUDIO_ALLOW_SKIP}
    /\ capture = 1
    /\ call = NoCall
    /\ emitted = <<>>
    /\ PlayAtRest
    /\ LifeAtRest

\* the thread loads glc->flags
UpdateLoad ==
    /\ upd.pc = "idle"
    /\ upd.n < MaxUpdates
    /\ \E bit \in UpdatedBits :
          upd' = [pc |-> "loaded", n |-> upd.n + 1, bit |-> bit, reg |-> flags]
    /\ UNCHANGED <<started, audio_hook, life, loader, libasound>>
    /\ UNCHANGED <<parseVars, hookVars, playVars, auxVars>>

\* the thread stores the value it has computed
UpdateStore ==
    /\ upd.pc = "loaded"
    /\ flags' = flags_or(upd.reg, upd.bit)
    /\ upd' = [upd EXCEPT !.pc = "idle"]
    /\ UNCHANGED <<capture, call, emitted>>
    /\ UNCHANGED <<started, audio_hook, life, loader, libasound>>
    /\ UNCHANGED <<parseVars, playVars, auxVars>>

FlagNext == UpdateLoad \/ UpdateStore \/ SetCapture \/ ClearCapture

FlagSpec == FlagInit /\ [][FlagNext]_vars

\* the step is the store of `glc->flags |= bit'
IsStore == upd.pc = "loaded" /\ upd'.pc = "idle"

\* C20: the flags are independently writable bits: when `glc->flags |= bit'
\* completes while another thread sets or clears GLC_CAPTURE, the bit is set
\* and every other bit keeps the value it has at that moment, so neither
\* thread's update is lost.
C20_NoLostUpdate ==
    [][IsStore => flags' = flags \cup {upd.bit}]_vars

----------------------------------------------------------------------------
(* The headers of src/common/glc.h and their declared sizes *)

GLC_STREAM_INFO_SIZE == 28

GLC_MESSAGE_HEADER_SIZE == 1

GLC_LZO_HEADER_SIZE == 9

GLC_PICTURE_HEADER_SIZE == 12

GLC_CTX_MESSAGE_SIZE == 16

GLC_AUDIO_FORMAT_MESSAGE_SIZE == 24

GLC_AUDIO_HEADER_SIZE == 20

\* the bytes of a field of the given type: lines 83-97, 185 and 261 give
\* the typedefs, the fixed-width integer types give the widths
TypeWidth(type) ==
    CASE type \in {"glc_utime_t", "glc_size_t"} -> 8              \* u_int64_t
      [] type \in {"u_int32_t", "glc_flags_t", "glc_ctx_i",
                   "glc_audio_i", "glc_audio_format_t"} -> 4       \* 32 bits
      [] type = "glc_message_type_t" -> 1                          \* char

\* the header structures, each with the types of its fields in order
HeaderFields ==
    [glc_stream_info_t |->
        <<"u_int32_t", "u_int32_t", "glc_flags_t", "u_int32_t", "u_int32_t",
          "u_int32_t", "u_int32_t">>,
     glc_message_header_t |-> <<"glc_message_type_t">>,
     glc_lzo_header_t |-> <<"glc_size_t", "glc_message_type_t">>,
     glc_picture_header_t |-> <<"glc_utime_t", "glc_ctx_i">>,
     glc_ctx_message_t |->
        <<"glc_flags_t", "glc_ctx_i", "u_int32_t", "u_int32_t">>,
     glc_audio_format_message_t |->
        <<"glc_audio_i", "glc_audio_format_t", "u_int32_t", "u_int32_t",
          "u_int32_t">>,
     glc_audio_header_t |-> <<"glc_utime_t", "glc_size_t", "glc_audio_i">>]

\* the size constant declared next to each structure
DeclaredSize ==
    [glc_stream_info_t |-> GLC_STREAM_INFO_SIZE,
     glc_message_header_t |-> GLC_MESSAGE_HEADER_SIZE,
     glc_lzo_header_t |-> GLC_LZO_HEADER_SIZE,
     glc_picture_header_t |-> GLC_PICTURE_HEADER_SIZE,
     glc_ctx_message_t |-> GLC_CTX_MESSAGE_SIZE,
     glc_audio_format_message_t |-> GLC_AUDIO_FORMAT_MESSAGE_SIZE,
     glc_audio_header_t |-> GLC_AUDIO_HEADER_SIZE]

HeaderKinds == DOMAIN HeaderFields

----------------------------------------------------------------------------
(* WireSpec: a header is laid out on the wire field after field, each      *)
(* field with the bytes of its type and nothing between two fields         *)

WireInit ==
    /\ ParseAtRest
    /\ HookAtRest
    /\ PlayAtRest
    /\ started = 0
    /\ audio_hook = NULL
    /\ life = NoLife
    /\ loader = NotLoaded
    /\ libasound = FullLibrary
    /\ upd = NoUpdate
    /\ wire \in {[NoWire EXCEPT !.kind = k] : k \in HeaderKinds}
    /\ so = Interposed
    /\ hooks = NoHooks

\* the header is laid out when the last field is behind
LaidOut(w) == w.kind \in HeaderKinds /\ w.field > Len(HeaderFields[w.kind])

\* the next byte of the header goes on the wire
WireByte ==
    /\ wire.kind \in HeaderKinds
    /\ ~LaidOut(wire)
    /\ LET width == TypeWidth(HeaderFields[wire.kind][wire.field])
       IN  wire' = IF wire.byte + 1 = width
                   THEN [wire EXCEPT !.field = @ + 1, !.byte = 0,
                                     !.offset = @ + 1]
                   ELSE [wire EXCEPT !.byte = @ + 1, !.offset = @ + 1]
    /\ UNCHANGED <<parseVars, hookVars, playVars>>
    /\ UNCHANGED <<started, audio_hook, life, loader, libasound, upd, so,
                   hooks>>

WireNext == WireByte

WireSpec == WireInit /\ [][WireNext]_vars

\* C21: for every header the declared size constant is the sum of the widths
\* of the header's fields: a header that is laid out without padding has
\* exactly as many bytes as its constant says.
C21_DeclaredSizeIsFieldSum ==
    LaidOut(wire) => wire.offset = DeclaredSize[wire.kind]

----------------------------------------------------------------------------
(* Claims about alsa_unhook_so *)

\* C22: a call of alsa_unhook_so that does not find the object returns the
\* non-zero code of the lookup and rebinds nothing; one that finds it returns
\* 0 and has rebound every entry point the layer intercepts (snd_pcm_open,
\* snd_pcm_writei, snd_pcm_writen, snd_pcm_mmap_begin, snd_pcm_mmap_commit)
\* and dlsym and dlvsym, each to a resolved, non-null address.
C22_UnhookRebindsAll ==
    [][(IsCall("alsa_unhook_so") /\ ~loader'.exited)
       => /\ loader'.alsa_loaded # 0
          /\ life'.ret # 0 => so' = so
          /\ life'.ret = 0
             => \A s \in RelocSymbols : so'.rel[s] \notin {"layer", "NULL"}
      ]_vars

----------------------------------------------------------------------------
(* Claims about the buffer of a device name *)

\* C23: in every pass of alsa_parse_capture_cfg that creates a node, each
\* index written into stream->device (the len copied characters and the
\* terminating NUL) is strictly smaller than the size passed to malloc.
C23_NameWritesInsideBuffer ==
    [][capture_stream' # capture_stream
       => LET it == ParseSpecAt(cfg, SkipDelims(cfg, device))
          IN  \A i \in it.writes : i < it.alloc
      ]_vars

----------------------------------------------------------------------------
(* Claims about the audio hook handle *)

\* an intercepted write or mmap call is made in this step
IsIntercepted ==
    \E fn \in {"snd_pcm_writei", "snd_pcm_writen", "snd_pcm_mmap_begin",
               "snd_pcm_mmap_commit"} : IsCall(fn)

\* C24: with capturing on, an intercepted call that emits passes a handle
\* that a successful alsa_start has created and that alsa_close has not yet
\* closed, and audio_hook_close is invoked at most once after each successful
\* alsa_start however often alsa_close is called.
C24_HookHandleLive ==
    [][/\ (IsIntercepted /\ hooks'.passed.used)
          => (hooks'.passed.handle # NULL /\ hooks.live)
       /\ IsCall("alsa_close") => hooks'.closes <= 1
      ]_vars

====
